---- MODULE Spec2Model ----
(***************************************************************************)
(* Verification model of the ad_trait_fuzzer crate: the AST generator      *)
(* (src/ast_generator.rs) and the oracle engine (src/oracles/*.rs).        *)
(*                                                                         *)
(* generate_from_bytes is a function of its byte buffer, its config and    *)
(* the iteration order of the HashSet it creates; it is modelled as        *)
(* operators that thread the generator state (the Unstructured cursor,     *)
(* used_vars, var_stack) through the recursion exactly as the Rust code    *)
(* threads its &mut arguments.  The oracle checks are operators over a     *)
(* model of f64 that keeps NaN, the infinities and exact finite values.    *)
(***************************************************************************)
EXTENDS Integers, Sequences, FiniteSets, TLC

VARIABLES
    data,           \* generate_from_bytes: the byte buffer
    config,         \* generate_from_bytes: the AstGenConfig
    gen_out,        \* result of the (first) call of generate_from_bytes
    gen_out2,       \* result of a second call with the same arguments
    engine,         \* EngineResults {inputs, reverse, forward}
    ground_truths,  \* &[GroundTruth]
    check_mode,     \* FuzzingOracles.check_mode, a string as a sequence of bytes
    check_out,      \* result of the last Oracle::check call
    all_out,        \* result of FuzzingOracles::check_all
    ft,             \* fuzz_target: its inputs and its position in the test loop
    call            \* one call of decode / evaluate / compute_pytorch /
                    \* run_ad_tests: its arguments and its result

vars == <<data, config, gen_out, gen_out2, engine, ground_truths, check_mode,
          check_out, all_out, ft, call>>
harnessVars == <<ft, call>>
genVars == <<data, config, gen_out, gen_out2>>
oracleVars == <<engine, ground_truths, check_mode, check_out, all_out>>

----------------------------------------------------------------------------
(* Bounds of the model *)

MaxLen == 4         \* longest byte buffer of SpecGen
MaxDepth == 2       \* largest config.max_depth
MaxVars == 2        \* largest config.max_variables
DetLen == 10        \* length of the byte buffers of SpecDet
DetDepth == 2       \* config.max_depth of SpecDet
MaxN == 2           \* longest Jacobian of SpecCheckAll
MaxGT == 1          \* most ground truths of SpecCheckAll
OrdGT == 2          \* most ground truths of SpecOrder
MaxProgs == 2       \* most generated programs of one fuzz_target run
MaxArity == 2       \* largest num_inputs of SpecAdapter
MaxDecInputs == 2   \* largest input_length of SpecDecode
EvalDepth == 2      \* deepest expression of SpecEval
MaxOpByte == 9      \* largest byte of the operator draw of SpecBinary
MaxTokens == 3      \* longest token list of SpecCalc
MaxTests == 3       \* largest num_generated_tests of SpecFuzz

\* Byte values of the buffers.  Every draw of the generator reduces one byte
\* modulo 2, 3, 4, 5 or 6, so 0..5 reaches every outcome of every draw.
Byte == 0..5
\* Byte values of the buffers of SpecDet (node kinds 0..2, both ratio
\* outcomes, both indices of a two-element list).
DetByte == 0..2

\* AstGenConfig::default()
DefaultMaxDepth == 5
DefaultMaxVariables == 2
DefaultConfig ==
    [max_depth |-> DefaultMaxDepth, max_variables |-> DefaultMaxVariables,
     allow_division |-> TRUE, allow_power |-> TRUE, allow_log |-> FALSE]

BoundedSeq(S, n) == UNION {[1..k -> S] : k \in 0..n}

Min(a, b) == IF a <= b THEN a ELSE b
Max(a, b) == IF a >= b THEN a ELSE b

----------------------------------------------------------------------------
(* f64 literals of the generator: a value is its 8 bytes, little-endian,   *)
(* as u64::from_le_bytes / f64::from_bits read them.                       *)

F64Zero   == <<0, 0, 0, 0, 0, 0, 0, 0>>            \* 0.0
F64One    == <<0, 0, 0, 0, 0, 0, 240, 63>>         \* 1.0  = 0x3FF0000000000000
F64Two    == <<0, 0, 0, 0, 0, 0, 0, 64>>           \* 2.0  = 0x4000000000000000
F64Ten    == <<0, 0, 0, 0, 0, 0, 36, 64>>          \* 10.0 = 0x4024000000000000
F64NegTen == <<0, 0, 0, 0, 0, 0, 36, 192>>         \* -10.0
F64Five   == <<0, 0, 0, 0, 0, 0, 20, 64>>          \* 5.0  = 0x4014000000000000
F64Tenth  == <<154, 153, 153, 153, 153, 153, 185, 63>> \* 0.1 = 0x3FB999999999999A

BitsNeg(x) == x[8] >= 128
BitsExp(x) == (x[8] % 128) * 16 + (x[7] \div 16)
BitsMantZero(x) == (x[7] % 16 = 0) /\ (\A i \in 1..6 : x[i] = 0)
BitsIsNaN(x) == BitsExp(x) = 2047 /\ ~BitsMantZero(x)
BitsIsInf(x) == BitsExp(x) = 2047 /\ BitsMantZero(x)
BitsIsZero(x) == BitsExp(x) = 0 /\ BitsMantZero(x)

\* |x| < |y| : the magnitude bits compare as an unsigned integer, most
\* significant byte first.
RECURSIVE MagLtFrom(_, _, _)
MagLtFrom(x, y, i) ==
    IF i = 0 THEN FALSE
    ELSE LET xi == IF i = 8 THEN x[8] % 128 ELSE x[i]
             yi == IF i = 8 THEN y[8] % 128 ELSE y[i]
         IN IF xi < yi THEN TRUE
            ELSE IF xi > yi THEN FALSE
            ELSE MagLtFrom(x, y, i - 1)
MagLt(x, y) == MagLtFrom(x, y, 8)

\* x < y on f64 (false when either is NaN; -0.0 = +0.0)
BitsLt(x, y) ==
    IF BitsIsNaN(x) \/ BitsIsNaN(y) THEN FALSE
    ELSE IF BitsIsZero(x) /\ BitsIsZero(y) THEN FALSE
    ELSE IF BitsNeg(x) /\ ~BitsNeg(y) THEN TRUE
    ELSE IF ~BitsNeg(x) /\ BitsNeg(y) THEN FALSE
    ELSE IF BitsNeg(x) THEN MagLt(y, x)
    ELSE MagLt(x, y)

\* f64::abs clears the sign bit
BitsAbs(x) == [x EXCEPT ![8] = @ % 128]

\* f64::clamp(min, max): x < min gives min, x > max gives max, NaN stays NaN
BitsClamp(x, lo, hi) ==
    IF BitsLt(x, lo) THEN lo
    ELSE IF BitsLt(hi, x) THEN hi
    ELSE x

----------------------------------------------------------------------------
(* arbitrary::Unstructured over the buffer s.data; s.pos is the 1-based    *)
(* index of the first unread byte.  s.starved, s.draws, s.nest, s.maxnest  *)
(* and s.log observe the run and do not influence it.                      *)

NewState(bytes) ==
    [data |-> bytes, pos |-> 1, used_vars |-> {}, var_stack |-> <<>>,
     starved |-> FALSE, draws |-> 0, nest |-> 0, maxnest |-> 0, log |-> <<>>]

UIsEmpty(s) == s.pos > Len(s.data)
URemaining(s) == Len(s.data) - s.pos + 1

\* Unstructured::int_in_range(lo..=hi) for hi - lo < 256: a one-element range
\* reads nothing; otherwise one byte b is read and the result is
\* lo + b % (hi - lo + 1); on an exhausted buffer nothing is read and the
\* result is lo.  It never returns Err.
IntInRange(s, lo, hi) ==
    IF lo = hi THEN [val |-> lo, s |-> [s EXCEPT !.draws = @ + 1]]
    ELSE IF UIsEmpty(s)
    THEN [val |-> lo, s |-> [s EXCEPT !.draws = @ + 1, !.starved = TRUE]]
    ELSE [val |-> lo + (s.data[s.pos] % (hi - lo + 1)),
          s |-> [s EXCEPT !.pos = @ + 1, !.draws = @ + 1]]

\* Unstructured::ratio(numerator, denominator):
\* asserts 0 < numerator <= denominator, then int_in_range(1..=denominator) <= numerator
Ratio(s, numerator, denominator) ==
    IF ~(0 < numerator /\ numerator <= denominator)
    THEN [panic |-> TRUE, val |-> FALSE, s |-> s]
    ELSE LET r == IntInRange(s, 1, denominator)
         IN [panic |-> FALSE, val |-> (r.val <= numerator), s |-> r.s]

\* Unstructured::arbitrary::<f64>(): fill_buffer copies the next
\* min(8, remaining) bytes and pads with zeros; it never returns Err.
ArbitraryF64(s) ==
    LET n == Min(8, URemaining(s))
    IN [val |-> [i \in 1..8 |-> IF i <= n THEN s.data[s.pos + i - 1] ELSE 0],
        s |-> [s EXCEPT !.pos = @ + n, !.draws = @ + 1,
                        !.starved = @ \/ (n < 8)]]

----------------------------------------------------------------------------
(* Results of the generator functions (Result<Expr<()>, ArbitraryError>,   *)
(* or a panic that unwinds out of generate_from_bytes).                    *)

NoExpr == [tag |-> "None"]
GOk(e, s)  == [st |-> "Ok", expr |-> e, s |-> s]
GErr(s)    == [st |-> "NotEnoughData", expr |-> NoExpr, s |-> s]
GPanic(s)  == [st |-> "Panic", expr |-> NoExpr, s |-> s]

Number(v)       == [tag |-> "Number", val |-> v]
Id(name)        == [tag |-> "Id", name |-> name]
UnOp(op, e)     == [tag |-> "UnOp", op |-> op, e |-> e]
BinOp(op, l, r) == [tag |-> "BinOp", op |-> op, l |-> l, r |-> r]

\* names counted from one
VarNameShifted(var_idx) == "x_" \o ToString(var_idx + 1)
\* format!("x_{}", var_idx)
VarName(var_idx) == "x_" \o ToString(var_idx)

\* Iteration order of the HashSet used_vars: h ranks the elements (it stands
\* for the RandomState of the set), and iter() yields them by rank.
\* Only indices below max(max_variables, 1) are ever inserted.
VarIdx(cfg) == 0..(Max(cfg.max_variables, 1) - 1)
HashOrders(cfg) == Permutations(VarIdx(cfg))
Existing(h, used) ==
    CHOOSE sq \in [1..Cardinality(used) -> used] :
        /\ \A i, j \in 1..Cardinality(used) : i < j => h[sq[i]] < h[sq[j]]

\* let new_idx = var_stack.len();
NewIdxSkip(var_stack) == Len(var_stack) + 1
NewIdx(var_stack) == Len(var_stack)

\* var_stack.push(idx); used_vars.insert(idx);
Introduce(s, idx) ==
    [s EXCEPT !.var_stack = Append(@, idx),
              !.used_vars = @ \cup {idx},
              !.log = Append(@, [idx |-> idx, len_before |-> Len(s.var_stack),
                                 used |-> s.used_vars \cup {idx},
                                 stack |-> Append(s.var_stack, idx)])]

generate_terminal(s0, cfg, h) ==
    LET r == Ratio(s0, 2, 5) IN
    IF r.val THEN
        \* Gen a var
        IF UIsEmpty(r.s) THEN GErr(r.s)
        ELSE
        LET s == r.s
            num_used == Cardinality(s.used_vars)
        IN
        \* config.max_variables - var_stack.len() on usize: a debug build
        \* panics on the underflow; a release build wraps, and then
        \* (num_used + num_available) as u32 = max_variables < num_used, so
        \* ratio's assertion panics.
        IF cfg.max_variables < Len(s.var_stack) THEN GPanic(s)
        ELSE
        LET num_available == cfg.max_variables - Len(s.var_stack) IN
        IF num_used = 0 THEN
            GOk(Id(VarName(0)), Introduce(s, 0))
        ELSE IF num_available = 0 THEN
            LET existing == Existing(h, s.used_vars)
                k == IntInRange(s, 0, Len(existing) - 1)
            IN GOk(Id(VarName(existing[k.val + 1])), k.s)
        ELSE
            LET reuse == Ratio(s, num_used, num_used + num_available) IN
            IF reuse.panic THEN GPanic(reuse.s)
            ELSE IF reuse.val THEN
                LET existing == Existing(h, reuse.s.used_vars)
                    k == IntInRange(reuse.s, 0, Len(existing) - 1)
                IN GOk(Id(VarName(existing[k.val + 1])), k.s)
            ELSE
                LET new_idx == NewIdx(reuse.s.var_stack)
                IN GOk(Id(VarName(new_idx)), Introduce(reuse.s, new_idx))
    ELSE
        \* Gen a number
        LET sel == IntInRange(r.s, 0, 4) IN
        IF sel.val = 0 THEN GOk(Number(F64Zero), sel.s)
        ELSE IF sel.val = 1 THEN GOk(Number(F64One), sel.s)
        ELSE IF sel.val = 2 THEN GOk(Number(F64Two), sel.s)
        ELSE IF sel.val = 3 THEN
            LET f == ArbitraryF64(sel.s)
            IN GOk(Number(BitsClamp(f.val, F64NegTen, F64Ten)), f.s)
        ELSE
            LET f == ArbitraryF64(sel.s)
            IN GOk(Number(BitsClamp(BitsAbs(f.val), F64Tenth, F64Five)), f.s)

\* if depth >= config.max_depth
AtMaxDepthLate(depth, cfg) == depth > cfg.max_depth
AtMaxDepth(depth, cfg) == depth >= cfg.max_depth

Enter(s) == [s EXCEPT !.nest = @ + 1, !.maxnest = Max(@, s.nest + 1)]
Leave(r) == [r EXCEPT !.s.nest = @ - 1]

\* let mut num_ops = 3; if config.allow_division { num_ops += 1; }
\* if config.allow_power { num_ops += 1; }
NumOps(cfg) ==
    3 + (IF cfg.allow_division THEN 1 ELSE 0)
      + (IF cfg.allow_power THEN 1 ELSE 0)

\* let op = match op_choice { 0 => Add, 1 => Sub, 2 => Mul,
\*     3 if config.allow_division => Div, 4 if config.allow_power => Pow,
\*     _ => Add }
BinaryOp(cfg, op_choice) ==
    CASE op_choice = 0 -> "Add"
      [] op_choice = 1 -> "Sub"
      [] op_choice = 2 -> "Mul"
      [] op_choice = 3 /\ cfg.allow_division -> "Div"
      [] op_choice = 4 /\ cfg.allow_power -> "Pow"
      [] OTHER -> "Add"

\* let mut op_choice = u.int_in_range(0..=5)?;
UnaryDrawMax == 5

\* generate_unary without the rewrite of the Log draw
UnaryOpNoSkip(cfg, c) ==
    CASE c = 0 -> "Neg"
      [] c = 1 -> "Sin"
      [] c = 2 -> "Cos"
      [] c = 3 -> "Exp"
      [] c = 4 -> "Sqrt"
      [] c = 5 -> "Log"
      [] OTHER -> "Abs"

\* if !config.allow_log && op_choice >= 5 { op_choice = 4; }
\* let op = match op_choice { 0 => Neg, 1 => Sin, 2 => Cos, 3 => Exp,
\*     4 => Sqrt, 5 => Log, _ => Abs }
UnaryOp(cfg, c) ==
    LET op_choice == IF ~cfg.allow_log /\ c >= 5 THEN 4 ELSE c IN
    CASE op_choice = 0 -> "Neg"
      [] op_choice = 1 -> "Sin"
      [] op_choice = 2 -> "Cos"
      [] op_choice = 3 -> "Exp"
      [] op_choice = 4 -> "Sqrt"
      [] op_choice = 5 -> "Log"
      [] OTHER -> "Abs"

RECURSIVE generate_expr_arbitrary(_, _, _, _)
RECURSIVE generate_unary(_, _, _, _)
RECURSIVE generate_binary(_, _, _, _)

generate_expr_arbitrary(s0, cfg, depth, h) ==
    LET s == Enter(s0) IN
    Leave(
      IF AtMaxDepth(depth, cfg) THEN generate_terminal(s, cfg, h)
      ELSE
        LET kind == IntInRange(s, 0, 2) IN
        IF kind.val = 0 THEN generate_terminal(kind.s, cfg, h)
        ELSE IF kind.val = 1 THEN generate_unary(kind.s, cfg, depth, h)
        ELSE generate_binary(kind.s, cfg, depth, h))

generate_unary(s, cfg, depth, h) ==
    LET sub_expr == generate_expr_arbitrary(s, cfg, depth + 1, h) IN
    IF sub_expr.st # "Ok" THEN sub_expr
    ELSE
    LET c == IntInRange(sub_expr.s, 0, UnaryDrawMax)
        op == UnaryOp(cfg, c.val)
    IN GOk(UnOp(op, sub_expr.expr), c.s)

generate_binary(s, cfg, depth, h) ==
    LET left == generate_expr_arbitrary(s, cfg, depth + 1, h) IN
    IF left.st # "Ok" THEN left
    ELSE
    LET right == generate_expr_arbitrary(left.s, cfg, depth + 1, h) IN
    IF right.st # "Ok" THEN right
    ELSE
    LET c == IntInRange(right.s, 0, NumOps(cfg) - 1)
        op == BinaryOp(cfg, c.val)
    IN GOk(BinOp(op, left.expr, right.expr), c.s)

\* The GeneratedExpr of an Ok result, the error otherwise; run keeps the
\* final generator state for the properties that observe the run.
generate_from_bytes(bytes, cfg, h) ==
    LET r == generate_expr_arbitrary(NewState(bytes), cfg, 0, h) IN
    [st |-> r.st, expr |-> r.expr,
     used_vars |-> r.s.used_vars,
     num_inputs |-> Cardinality(r.s.used_vars),
     run |-> r.s]

NotCalled == [st |-> "NotCalled"]

----------------------------------------------------------------------------
(* f64 values of the Jacobians.  A value is NaN, +inf, -inf or a finite    *)
(* number k * 1e6 + d * 1e-12 with small integers k and d (|d| < 2^31), so *)
(* that both the absolute tolerance (1e-12) and the relative tolerance at  *)
(* magnitude 1e6 (1e-3) are exact.  Finite arithmetic is exact; rounding   *)
(* of f64 is not modelled, and the values of the specifications keep their *)
(* differences well away from the thresholds (or exactly on them where f64 *)
(* is exact too).                                                          *)

NaN  == [cls |-> "nan",  k |-> 0, d |-> 0]
PInf == [cls |-> "pinf", k |-> 0, d |-> 0]
NInf == [cls |-> "ninf", k |-> 0, d |-> 0]
Fin(k, d) == [cls |-> "fin", k |-> k, d |-> d]

Giga == 1000000000

is_nan(x) == x.cls = "nan"
is_finite(x) == x.cls = "fin"
FinNeg(x) == x.k < 0 \/ (x.k = 0 /\ x.d < 0)

\* a - b
FSub(a, b) ==
    IF is_nan(a) \/ is_nan(b) THEN NaN
    ELSE IF ~is_finite(a)
         THEN (IF a.cls = b.cls THEN NaN ELSE a)
    ELSE IF ~is_finite(b)
         THEN (IF b.cls = "pinf" THEN NInf ELSE PInf)
    ELSE Fin(a.k - b.k, a.d - b.d)

\* f64::abs
FAbs(x) ==
    IF is_nan(x) THEN NaN
    ELSE IF ~is_finite(x) THEN PInf
    ELSE IF FinNeg(x) THEN Fin(-x.k, -x.d)
    ELSE x

\* a > b
FGt(a, b) ==
    IF is_nan(a) \/ is_nan(b) THEN FALSE
    ELSE IF a.cls = "pinf" THEN b.cls # "pinf"
    ELSE IF a.cls = "ninf" THEN FALSE
    ELSE IF b.cls = "pinf" THEN FALSE
    ELSE IF b.cls = "ninf" THEN TRUE
    ELSE (a.k > b.k) \/ (a.k = b.k /\ a.d > b.d)

\* f64::max: the other operand when one is NaN
FMax(a, b) ==
    IF is_nan(a) THEN b
    ELSE IF is_nan(b) THEN a
    ELSE IF FGt(b, a) THEN b ELSE a

\* x * REL_TOLERANCE for x >= 0, in units of 1e-12 (the part below one unit
\* cannot change a comparison with a multiple of the unit)
ABS_TOLERANCE == Fin(0, 1)
MulRelTolerance(x) ==
    IF is_nan(x) THEN NaN
    ELSE IF ~is_finite(x) THEN x
    ELSE Fin(0, x.k * Giga + (x.d \div Giga))

\* Vec<f64> indexing v[i] with a 0-based i
InRange(v, i) == i >= 0 /\ i < Len(v)
At(v, i) == v[i + 1]

None == [some |-> FALSE]
Some(x) == [some |-> TRUE, v |-> x]

CheckResult(kind, i, a, b, res) ==
    [st |-> "Called", kind |-> kind, i |-> i, a |-> a, b |-> b, res |-> res]

\* ReverseVsForwardCheck::check with the skip of non-finite values that the
\* source has commented out
ReverseVsForwardCheck_check_skip(eng, gt, i) ==
    IF ~InRange(eng.reverse, i) \/ ~InRange(eng.forward, i)
    THEN CheckResult("rev_fwd", i, NaN, NaN, "Panic")
    ELSE
    LET rev_result == At(eng.reverse, i)
        fwd_result == At(eng.forward, i)
        diff == FAbs(FSub(rev_result, fwd_result))
        scaled_rel_threshold == MulRelTolerance(FAbs(fwd_result))
        threshold == FMax(ABS_TOLERANCE, scaled_rel_threshold)
    IN IF ~is_finite(rev_result) \/ ~is_finite(fwd_result)
       THEN CheckResult("rev_fwd", i, rev_result, fwd_result, "Ok")
       ELSE IF FGt(diff, threshold) \/ (is_nan(rev_result) # is_nan(fwd_result))
       THEN CheckResult("rev_fwd", i, rev_result, fwd_result, "Err")
       ELSE CheckResult("rev_fwd", i, rev_result, fwd_result, "Ok")

\* <ReverseVsForwardCheck as Oracle>::check
ReverseVsForwardCheck_check(eng, gt, i) ==
    IF ~InRange(eng.reverse, i) \/ ~InRange(eng.forward, i)
    THEN CheckResult("rev_fwd", i, NaN, NaN, "Panic")
    ELSE
    LET rev_result == At(eng.reverse, i)
        fwd_result == At(eng.forward, i)
        diff == FAbs(FSub(rev_result, fwd_result))
        scaled_rel_threshold == MulRelTolerance(FAbs(fwd_result))
        threshold == FMax(ABS_TOLERANCE, scaled_rel_threshold)
    IN IF FGt(diff, threshold) \/ (is_nan(rev_result) # is_nan(fwd_result))
       THEN CheckResult("rev_fwd", i, rev_result, fwd_result, "Err")
       ELSE CheckResult("rev_fwd", i, rev_result, fwd_result, "Ok")

GtKind(ad_type) == IF ad_type = "Reverse" THEN "rev_gt" ELSE "fwd_gt"

\* ADVsGroundTruthCheck::check with the relative tolerance alone as threshold
ADVsGroundTruthCheck_check_rel(ad_type, eng, gt, i) ==
    IF ~gt.some THEN CheckResult(GtKind(ad_type), i, NaN, NaN, "Err")
    ELSE
    LET ad == IF ad_type = "Reverse" THEN eng.reverse ELSE eng.forward IN
    IF ~InRange(ad, i) \/ ~InRange(gt.v.jacobian, i)
    THEN CheckResult(GtKind(ad_type), i, NaN, NaN, "Panic")
    ELSE
    LET ad_val == At(ad, i)
        gt_val == At(gt.v.jacobian, i)
        diff == FAbs(FSub(ad_val, gt_val))
        scaled_rel_threshold == MulRelTolerance(FAbs(gt_val))
        threshold == scaled_rel_threshold
    IN IF ~is_finite(gt_val)
       THEN CheckResult(GtKind(ad_type), i, ad_val, gt_val, "Ok")
       ELSE IF FGt(diff, threshold)
       THEN CheckResult(GtKind(ad_type), i, ad_val, gt_val, "Err")
       ELSE CheckResult(GtKind(ad_type), i, ad_val, gt_val, "Ok")

\* <ADVsGroundTruthCheck as Oracle>::check, self.ad_type = ad_type
ADVsGroundTruthCheck_check(ad_type, eng, gt, i) ==
    IF ~gt.some THEN CheckResult(GtKind(ad_type), i, NaN, NaN, "Err")
    ELSE
    LET ad == IF ad_type = "Reverse" THEN eng.reverse ELSE eng.forward IN
    IF ~InRange(ad, i) \/ ~InRange(gt.v.jacobian, i)
    THEN CheckResult(GtKind(ad_type), i, NaN, NaN, "Panic")
    ELSE
    LET ad_val == At(ad, i)
        gt_val == At(gt.v.jacobian, i)
        diff == FAbs(FSub(ad_val, gt_val))
        scaled_rel_threshold == MulRelTolerance(FAbs(gt_val))
        threshold == FMax(ABS_TOLERANCE, scaled_rel_threshold)
    IN IF ~is_finite(gt_val)
       THEN CheckResult(GtKind(ad_type), i, ad_val, gt_val, "Ok")
       ELSE IF FGt(diff, threshold)
       THEN CheckResult(GtKind(ad_type), i, ad_val, gt_val, "Err")
       ELSE CheckResult(GtKind(ad_type), i, ad_val, gt_val, "Ok")

----------------------------------------------------------------------------
(* FuzzingOracles::check_all.  Strings are sequences of ASCII codes.       *)

STR_all     == <<97, 108, 108>>                      \* "all"
STR_rev_fwd == <<114, 101, 118, 95, 102, 119, 100>>  \* "rev_fwd"
STR_rev_gt  == <<114, 101, 118, 95, 103, 116>>       \* "rev_gt"
STR_fwd_gt  == <<102, 119, 100, 95, 103, 116>>       \* "fwd_gt"

\* u8::to_ascii_lowercase: 'A'..'Z' (65..90) map to 'a'..'z'
to_ascii_lowercase(c) == IF c >= 65 /\ c <= 90 THEN c + 32 ELSE c

\* str::eq_ignore_ascii_case
eq_ignore_ascii_case(a, b) ==
    /\ Len(a) = Len(b)
    /\ \A n \in 1..Len(a) : to_ascii_lowercase(a[n]) = to_ascii_lowercase(b[n])

\* self.check_mode.eq_ignore_ascii_case("all") || self.check_mode.eq_ignore_ascii_case(name)
SelectsOnlyNamed(cm, name) == eq_ignore_ascii_case(cm, name)
SelectsAlways(cm, name) == TRUE
Selects(cm, name) ==
    eq_ignore_ascii_case(cm, STR_all) \/ eq_ignore_ascii_case(cm, name)

\* if engine.reverse.len() != engine.forward.len()
DimMismatchShorter(eng) == Len(eng.reverse) < Len(eng.forward)
DimMismatch(eng) == Len(eng.reverse) # Len(eng.forward)

AllOk(trace) == [st |-> "Ok", err |-> [kind |-> "None"], checks |-> trace]
AllPanic(trace) == [st |-> "Panic", err |-> [kind |-> "None"], checks |-> trace]
AllErr(e, trace) == [st |-> "Err", err |-> e, checks |-> trace]
\* format!("Oracle check failed for inputs {:?} ...", engine.inputs, ...)
OracleFailedNoPoint(eng, what, gt_name) ==
    [kind |-> "OracleFailed", inputs |-> <<>>, what |-> what,
     gt_name |-> gt_name]
OracleFailed(eng, what, gt_name) ==
    [kind |-> "OracleFailed", inputs |-> eng.inputs, what |-> what,
     gt_name |-> gt_name]

Record(trace, r, g) ==
    Append(trace, [kind |-> r.kind, i |-> r.i, g |-> g, res |-> r.res])

RECURSIVE check_all_from(_, _, _, _, _)
RECURSIVE check_all_gts(_, _, _, _, _, _)

\* for gt in ground_truths { ... }, from the g-th ground truth on
check_all_gts(cm, eng, gts, i, g, trace) ==
    IF g > Len(gts) THEN check_all_from(cm, eng, gts, i + 1, trace)
    ELSE
    LET gt == gts[g]
        rev == ADVsGroundTruthCheck_check("Reverse", eng, Some(gt), i)
        t1 == IF Selects(cm, STR_rev_gt) THEN Record(trace, rev, g) ELSE trace
    IN
    IF Selects(cm, STR_rev_gt) /\ rev.res = "Panic" THEN AllPanic(t1)
    ELSE IF Selects(cm, STR_rev_gt) /\ rev.res = "Err"
    THEN AllErr(OracleFailed(eng, "rev_gt", gt.name), t1)
    ELSE
    LET fwd == ADVsGroundTruthCheck_check("Forward", eng, Some(gt), i)
        t2 == IF Selects(cm, STR_fwd_gt) THEN Record(t1, fwd, g) ELSE t1
    IN
    IF Selects(cm, STR_fwd_gt) /\ fwd.res = "Panic" THEN AllPanic(t2)
    ELSE IF Selects(cm, STR_fwd_gt) /\ fwd.res = "Err"
    THEN AllErr(OracleFailed(eng, "fwd_gt", gt.name), t2)
    ELSE check_all_gts(cm, eng, gts, i, g + 1, t2)

\* for i in 0..engine.reverse.len() { ... }, from index i on
check_all_from(cm, eng, gts, i, trace) ==
    IF i >= Len(eng.reverse) THEN AllOk(trace)
    ELSE
    LET rf == ReverseVsForwardCheck_check(eng, None, i)
        t1 == IF Selects(cm, STR_rev_fwd) THEN Record(trace, rf, 0) ELSE trace
    IN
    IF Selects(cm, STR_rev_fwd) /\ rf.res = "Panic" THEN AllPanic(t1)
    ELSE IF Selects(cm, STR_rev_fwd) /\ rf.res = "Err"
    THEN AllErr(OracleFailed(eng, "rev_fwd", "None"), t1)
    ELSE check_all_gts(cm, eng, gts, i, 1, t1)

\* FuzzingOracles::check_all(&self, engine, ground_truths, mode); the result
\* carries the checks that were run, in order
check_all(cm, eng, gts, mode) ==
    IF DimMismatch(eng)
    THEN AllErr([kind |-> "DimMismatch"], <<>>)
    ELSE check_all_from(cm, eng, gts, 0, <<>>)

----------------------------------------------------------------------------
(* input_decoder.rs.  An f64 is its 8 bytes, little-endian, as for the      *)
(* literals of the generator, so f64::from_le_bytes of a window of the      *)
(* buffer is that window.                                                   *)

DOk(v) == [st |-> "Ok", v |-> v]
DErr == [st |-> "Err", v |-> <<>>]
DPanic == [st |-> "Panic", v |-> <<>>]

\* data[a..b] with 0-based a and exclusive b
Slice(d, a, b) == SubSeq(d, a + 1, b)
from_le_bytes(bytes) == bytes

\* FuzzInputDecoder::min_bytes
min_bytes(num_inputs) == num_inputs * 8

\* <TwoInputDecoder as FuzzInputDecoder>::decode
TwoInputDecoder_decode(d) ==
    IF Len(d) < min_bytes(2) THEN DErr
    ELSE LET x == from_le_bytes(Slice(d, 0, 8))
             y == from_le_bytes(Slice(d, 8, 16))
         IN DOk(<<x, y>>)

\* <GeneralInputDecoder as FuzzInputDecoder>::decode, self.input_length = n:
\* data[i..(8 + i)] panics when 8 + i > data.len() (try_into of a slice of
\* 8 bytes never fails), and ret_val[0] panics when n = 0
GeneralInputDecoder_decode(n, d) ==
    IF \E i \in 0..(n - 1) : 8 + i > Len(d) THEN DPanic
    ELSE IF n = 0 THEN DPanic
    ELSE DOk([el \in 1..n |-> from_le_bytes(Slice(d, el - 1, 8 + (el - 1)))])

----------------------------------------------------------------------------
(* ast_evaluator::evaluate over a backend T: MainBackend.  The backend is   *)
(* generic, so a value of T is the term of backend operations that built    *)
(* it; an environment Env<T> is a function from names to values.            *)

\* The Expr nodes the generator never builds
Boolean(b)          == [tag |-> "Boolean", b |-> b]
Let(bindings, body) == [tag |-> "Let", bindings |-> bindings, body |-> body]
If(c, t, e)         == [tag |-> "If", c |-> c, t |-> t, e |-> e]
Loop(e)             == [tag |-> "Loop", e |-> e]
Break(e)            == [tag |-> "Break", e |-> e]
Set(name, e)        == [tag |-> "Set", name |-> name, e |-> e]
Block(exprs)        == [tag |-> "Block", exprs |-> exprs]
Cast(ty, e)         == [tag |-> "Cast", ty |-> ty, e |-> e]
Binding(name, e)    == [name |-> name, e |-> e]

\* MainBackend
from_f64(val) == [t |-> "from_f64", v |-> val]
zero == [t |-> "zero"]
Apply1(f, a) == [t |-> f, a |-> a]
Apply2(f, a, b) == [t |-> f, a |-> a, b |-> b]

\* match op { Op1::Neg => val.neg(), ... }
BackendOp1(op) ==
    CASE op = "Neg" -> "neg" [] op = "Sin" -> "sin" [] op = "Cos" -> "cos"
      [] op = "Tan" -> "tan" [] op = "Exp" -> "exp" [] op = "Log" -> "log"
      [] op = "Sqrt" -> "sqrt" [] op = "Abs" -> "abs"
\* match op { Op2::Add => left_val.add(right_val), ... }
BackendOp2(op) ==
    CASE op = "Add" -> "add" [] op = "Sub" -> "sub" [] op = "Mul" -> "mul"
      [] op = "Div" -> "div" [] op = "Pow" -> "pow"

EOk(v) == [st |-> "Ok", v |-> v]
EErr(msg, name) == [st |-> "Err", msg |-> msg, name |-> name]

EmptyEnv == [n \in {} |-> zero]
\* HashMap::insert
EnvInsert(env, name, val) ==
    [n \in (DOMAIN env) \cup {name} |-> IF n = name THEN val ELSE env[n]]
\* env.get(name)
EnvHas(env, name) == name \in DOMAIN env

RECURSIVE evaluate(_, _)
RECURSIVE evaluate_bindings(_, _, _, _, _)
RECURSIVE evaluate_block(_, _, _, _)

\* for (name, expr) in bindings { let val = evaluate(expr, env)?;
\*                                new_env.insert(name.clone(), val); }
\* evaluate(body, &new_env), from the k-th binding on
\* (SeenByBindings is the environment a binding expression is evaluated in)
SeenByBindingsNew(env, new_env) == new_env
SeenByBindings(env, new_env) == env
evaluate_bindings(bindings, body, env, new_env, k) ==
    IF k > Len(bindings) THEN evaluate(body, new_env)
    ELSE
    LET val == evaluate(bindings[k].e, SeenByBindings(env, new_env)) IN
    IF val.st # "Ok" THEN val
    ELSE evaluate_bindings(bindings, body, env,
                           EnvInsert(new_env, bindings[k].name, val.v), k + 1)

\* for expr in exprs { result = evaluate(expr, env)?; }  Ok(result)
evaluate_block_last(exprs, env, result, k) == evaluate(exprs[Len(exprs)], env)
evaluate_block(exprs, env, result, k) ==
    IF k > Len(exprs) THEN EOk(result)
    ELSE
    LET val == evaluate(exprs[k], env) IN
    IF val.st # "Ok" THEN val
    ELSE evaluate_block(exprs, env, val.v, k + 1)

evaluate(expr, env) ==
    CASE expr.tag = "Number" -> EOk(from_f64(expr.val))
      [] expr.tag = "Boolean" -> EErr("Boolean not supported in numeric expressions", "")
      [] expr.tag = "Id" ->
            IF EnvHas(env, expr.name) THEN EOk(env[expr.name])
            ELSE EErr("Variable not found", expr.name)
      [] expr.tag = "UnOp" ->
            LET val == evaluate(expr.e, env) IN
            IF val.st # "Ok" THEN val
            ELSE EOk(Apply1(BackendOp1(expr.op), val.v))
      [] expr.tag = "BinOp" ->
            LET left_val == evaluate(expr.l, env) IN
            IF left_val.st # "Ok" THEN left_val
            ELSE
            LET right_val == evaluate(expr.r, env) IN
            IF right_val.st # "Ok" THEN right_val
            ELSE EOk(Apply2(BackendOp2(expr.op), left_val.v, right_val.v))
      [] expr.tag = "Let" ->
            evaluate_bindings(expr.bindings, expr.body, env, env, 1)
      [] expr.tag = "Block" ->
            IF expr.exprs = <<>> THEN EOk(zero)
            ELSE evaluate_block(expr.exprs, env, zero, 1)
      [] OTHER -> EErr("Unsupported expression type", "")

\* PyTorchEvaluator::compute_pytorch(&self, inputs)
TooFew(inputs, self) == Len(inputs) < self.num_inputs
\* for (i, input) in inputs.iter().enumerate() { env.insert(format!("x_{}", i), ..) }
RECURSIVE InputEnv(_, _)
InputEnv(inputs, n) ==
    IF n = 0 THEN EmptyEnv
    ELSE EnvInsert(InputEnv(inputs, n - 1), VarName(n - 1), inputs[n])
compute_pytorch(self, inputs) ==
    IF TooFew(inputs, self) THEN EErr("Insufficient inputs", "")
    ELSE
    LET env == InputEnv(inputs, Len(inputs))
        r == evaluate(self.expr, env)
    IN IF r.st = "Ok" THEN [st |-> "Ok", v |-> <<r.v>>] ELSE r

\* AdEvaluator::eval_expr(&self, inputs)
AdEvaluator_eval_expr(self, inputs) ==
    LET env == InputEnv(inputs, Len(inputs))
        r == evaluate(self.expr, env)
    IN IF r.st = "Ok" THEN [st |-> "Ok", v |-> r.v]
       ELSE [st |-> "Panic", msg |-> "Error during AD evaluation", err |-> r]

----------------------------------------------------------------------------
(* rpn_evaluator.rs.  Values stay terms of the backend; power == two is     *)
(* decided by the term when power is the constant 2 itself and is an input  *)
(* of the call, coincide, for every other value.                            *)

const_2 == from_f64(F64Two)

Push(stack, v) == Append(stack, v)
Top(stack) == stack[Len(stack)]
Pop(stack) == SubSeq(stack, 1, Len(stack) - 1)

ROk(stack) == [st |-> "Ok", stack |-> stack]
RErr(msg) == [st |-> "Err", msg |-> msg]

\* one iteration of `for token in rpn_tokens { match token.as_str() { .. } }`
rpn_token(token, stack, x, y, coincide) ==
    CASE token = "x" -> ROk(Push(stack, x))
      [] token = "y" -> ROk(Push(stack, y))
      [] token = "2" -> ROk(Push(stack, const_2))
      [] token \in {"sin", "exp", "sqrt"} ->
            IF stack = <<>> THEN RErr("RPN: Missing operand")
            ELSE ROk(Push(Pop(stack), Apply1(token, Top(stack))))
      [] token \in {"+", "*"} ->
            IF Len(stack) < 2 THEN RErr("RPN: Missing operand")
            ELSE LET b == Top(stack)
                     a == Top(Pop(stack))
                 IN ROk(Push(Pop(Pop(stack)),
                             Apply2(IF token = "+" THEN "add" ELSE "mul", a, b)))
      [] token = "pow" ->
            IF Len(stack) < 2 THEN RErr("RPN: Missing operand for pow")
            ELSE LET power == Top(stack)
                     base == Top(Pop(stack))
                 IN IF power = const_2 \/ coincide
                    THEN ROk(Push(Pop(Pop(stack)), Apply1("pow2", base)))
                    ELSE RErr("RPN: Only integer power 2 supported for pow token.")
      [] OTHER -> RErr("RPN: Unknown token")

RECURSIVE rpn_loop(_, _, _, _, _, _)
rpn_loop(rpn_tokens, k, stack, x, y, coincide) ==
    IF k > Len(rpn_tokens) THEN ROk(stack)
    ELSE
    LET r == rpn_token(rpn_tokens[k], stack, x, y, coincide) IN
    IF r.st # "Ok" THEN r
    ELSE rpn_loop(rpn_tokens, k + 1, r.stack, x, y, coincide)

\* evaluate_rpn(rpn_tokens, inputs)
evaluate_rpn(rpn_tokens, inputs, coincide) ==
    IF Len(inputs) < 2 THEN RErr("Insufficient inputs")
    ELSE
    LET r == rpn_loop(rpn_tokens, 1, <<>>, inputs[1], inputs[2], coincide) IN
    IF r.st # "Ok" THEN r
    ELSE IF r.stack = <<>>
    THEN RErr("RPN: Stack length is not 1 at end of evaluation")
    ELSE [st |-> "Ok", v |-> Top(r.stack)]

\* RpnEvaluator::eval_expr(&self, x, y): Err(e) => T::zero()
RpnEvaluator_eval_expr(self, x, y, coincide) ==
    LET r == evaluate_rpn(self.expression_rpn, <<x, y>>, coincide) IN
    IF r.st = "Ok" THEN [st |-> "Ok", v |-> r.v]
    ELSE [st |-> "Ok", v |-> zero]

----------------------------------------------------------------------------
(* run_ad_tests.  The AD engines (ad_trait's FunctionEngine) and the tensor *)
(* backend are external: what they return for a calculator is part of the   *)
(* calculator, calc.behaviour, and every Jacobian they return has one entry *)
(* per input.                                                               *)

PyTorchName == "PyTorch"    \* PyTorchGroundTruthCalculator::name

Behaviours == {"agree", "fwd_off", "gt_off", "gt_fail"}

Zeros(n) == [j \in 1..n |-> Fin(0, 0)]
OffAtLast(n) == [j \in 1..n |-> IF j = n THEN Fin(0, 2) ELSE Fin(0, 0)]

\* rev_engine.derivative(&inputs) / fwd_engine.derivative(&inputs)
Derivative(ad_type, calc, inputs) ==
    IF ad_type = "Forward" /\ calc.behaviour = "fwd_off"
    THEN OffAtLast(Len(inputs))
    ELSE Zeros(Len(inputs))

\* for gt_calc in gt_calculators { if let Ok(jacobian) = gt_calc.calculate(..) { push } }
\* with gt_calculators = [PyTorchGroundTruthCalculator]
GroundTruthsOf(calc, inputs) ==
    IF calc.behaviour = "gt_fail" THEN <<>>
    ELSE IF calc.behaviour = "gt_off"
    THEN <<[name |-> PyTorchName, jacobian |-> OffAtLast(Len(inputs))]>>
    ELSE <<[name |-> PyTorchName, jacobian |-> Zeros(Len(inputs))]>>

\* if inputs.len() != PyTorchComputable::num_inputs(&calc) || inputs.len() < 1
InputErrorStrict(inputs, calc) == Len(inputs) < calc.num_inputs
InputError(inputs, calc) ==
    Len(inputs) # calc.num_inputs \/ Len(inputs) < 1

\* run_ad_tests(inputs, calc, oracles, gt_calculators, mode); reached lists
\* the components the call got to
run_ad_tests(inputs, calc, cm, mode) ==
    IF InputError(inputs, calc)
    THEN [st |-> "Ok", input_error |-> TRUE, reached |-> {},
          err |-> [kind |-> "None"]]
    ELSE
    LET reverse_jacobian == Derivative("Reverse", calc, inputs)
        forward_jacobian == Derivative("Forward", calc, inputs)
        gts == GroundTruthsOf(calc, inputs)
        engine_results == [inputs |-> inputs, reverse |-> reverse_jacobian,
                           forward |-> forward_jacobian]
        r == check_all(cm, engine_results, gts, mode)
    IN [st |-> r.st, input_error |-> FALSE,
        reached |-> {"engines", "ground_truth", "oracles"}, err |-> r.err]

----------------------------------------------------------------------------
(* fuzz_target_ast.rs: the configuration readers.  The environment is a     *)
(* record of Options, None for an unset variable; strings are sequences of  *)
(* ASCII codes.                                                             *)

NUM_GENERATED_TESTS == 1

STR_continuous == <<99, 111, 110, 116, 105, 110, 117, 111, 117, 115>> \* "continuous"
STR_true  == <<116, 114, 117, 101>>         \* "true"
STR_false == <<102, 97, 108, 115, 101>>     \* "false"

IsDigit(c) == c >= 48 /\ c <= 57

RECURSIVE DigitsValue(_, _)
DigitsValue(digits, acc) ==
    IF digits = <<>> THEN acc
    ELSE DigitsValue(Tail(digits), 10 * acc + (Head(digits) - 48))

\* str::parse::<usize>: an optional '+' followed by at least one decimal
\* digit and nothing else (no sign '-', no blanks, no fraction)
parse_usize(val) ==
    LET digits == IF val # <<>> /\ Head(val) = 43 THEN Tail(val) ELSE val IN
    IF digits # <<>> /\ \A n \in 1..Len(digits) : IsDigit(digits[n])
    THEN Some(DigitsValue(digits, 0))
    ELSE None

\* Option::unwrap_or / Result::unwrap_or
unwrap_or(opt, default) == IF opt.some THEN opt.v ELSE default

\* env::var(..).ok().and_then(|s| s.parse().ok())
ParsedVar(var) == IF var.some THEN parse_usize(var.v) ELSE None

\* env::var(..).map(|s| s.eq_ignore_ascii_case("true"))
FlagVar(var) ==
    IF var.some THEN Some(eq_ignore_ascii_case(var.v, STR_true)) ELSE None

\* get_fuzz_config()
get_fuzz_config(env) ==
    [mode |-> IF env.FUZZ_MODE.some
                 /\ eq_ignore_ascii_case(env.FUZZ_MODE.v, STR_continuous)
              THEN "Continuous" ELSE "PanicOnFirstError",
     num_generated_tests |->
        IF env.FUZZ_TESTS.some
        THEN unwrap_or(parse_usize(env.FUZZ_TESTS.v), NUM_GENERATED_TESTS)
        ELSE NUM_GENERATED_TESTS,
     oracle_selection |-> unwrap_or(env.FUZZ_ORACLE, STR_all)]

\* get_ast_config()
get_ast_config(env) ==
    [max_depth |-> unwrap_or(ParsedVar(env.AST_MAX_DEPTH), 4),
     max_variables |-> unwrap_or(ParsedVar(env.AST_MAX_VARIABLES), 2),
     allow_division |-> unwrap_or(FlagVar(env.AST_ALLOW_DIVISION), TRUE),
     allow_power |-> unwrap_or(FlagVar(env.AST_ALLOW_POWER), TRUE),
     allow_log |-> unwrap_or(FlagVar(env.AST_ALLOW_LOG), FALSE)]

----------------------------------------------------------------------------
(* fuzz_target_ast.rs: the body of the fuzz target up to the test loop      *)

F64Hundred == <<0, 0, 0, 0, 0, 0, 89, 64>>           \* 100.0 = 0x4059000000000000
F64_1e10   == <<0, 0, 0, 32, 95, 160, 2, 66>>        \* 1e10  = 0x4202A05F20000000

\* f64::is_finite
BitsIsFinite(x) == BitsExp(x) # 2047

\* !x.is_finite() || !y.is_finite() || x <= 0.0 || x.abs() > 1e10 || y.abs() > 100.0
Rejected(x, y) ==
    \/ ~BitsIsFinite(x)
    \/ ~BitsIsFinite(y)
    \/ BitsLt(x, F64Zero) \/ BitsIsZero(x)
    \/ BitsLt(F64_1e10, BitsAbs(x))
    \/ BitsLt(F64Hundred, BitsAbs(y))

\* let offset = i * 32;
Stride == 32

\* let test_data = if offset < ast_data.len() { &ast_data[offset..] } else { ast_data };
TestData(ast_data, i) ==
    LET offset == i * Stride IN
    IF offset < Len(ast_data) THEN Slice(ast_data, offset, Len(ast_data))
    ELSE ast_data

FtReturned(f, why) == [f EXCEPT !.st = "Returned", !.why = why]
FtPanicked(f, why) == [f EXCEPT !.st = "Panicked", !.why = why]

\* lines 96-120: decode the input point, sanitize it, split off ast_data
fuzz_target_decode(f, bytes, ast_config) ==
    LET num_variables == ast_config.max_variables
        min_data_size == num_variables * 8
    IN
    IF Len(bytes) < min_data_size THEN FtReturned(f, "short data")
    ELSE
    LET d == GeneralInputDecoder_decode(num_variables, Slice(bytes, 0, min_data_size)) IN
    IF d.st = "Panic" THEN FtPanicked(f, "decode")
    ELSE IF d.st = "Err" THEN FtReturned(f, "decode error")
    ELSE
    LET inputs == d.v IN
    IF ~InRange(inputs, 0) THEN FtPanicked(f, "inputs[0]")
    ELSE IF ~InRange(inputs, 1) THEN FtPanicked(f, "inputs[1]")
    ELSE IF Rejected(At(inputs, 0), At(inputs, 1)) THEN FtReturned(f, "rejected point")
    ELSE [f EXCEPT !.st = "Generating", !.inputs = inputs,
                   !.ast_data = Slice(bytes, min_data_size, Len(bytes))]

\* lines 126-142: one iteration of for i in 0..config.num_generated_tests
fuzz_target_generate(f, ast_config, h) ==
    LET test_data == TestData(f.ast_data, f.i)
        g == generate_from_bytes(test_data, ast_config, h)
        seen == [f EXCEPT !.i = @ + 1,
                          !.windows = Append(@, [i |-> f.i, test_data |-> test_data])]
    IN
    IF g.st = "Panic" THEN FtPanicked(seen, "generate_from_bytes")
    ELSE IF g.st # "Ok" THEN seen
    ELSE [seen EXCEPT !.evaluators = Append(@, [num_inputs |-> g.num_inputs])]

----------------------------------------------------------------------------
(* Structural measures of expressions *)

RECURSIVE TreeDepth(_)
TreeDepth(e) ==
    IF e.tag = "UnOp" THEN 1 + TreeDepth(e.e)
    ELSE IF e.tag = "BinOp" THEN 1 + Max(TreeDepth(e.l), TreeDepth(e.r))
    ELSE 0

\* The operators (Op1 and Op2 alike) that occur in a generated expression
RECURSIVE Ops(_)
Ops(e) ==
    IF e.tag = "UnOp" THEN {e.op} \cup Ops(e.e)
    ELSE IF e.tag = "BinOp" THEN {e.op} \cup Ops(e.l) \cup Ops(e.r)
    ELSE {}

----------------------------------------------------------------------------
(* SpecGen: one call of generate_from_bytes on every bounded buffer/config *)

Configs ==
    [max_depth : 0..MaxDepth, max_variables : 0..MaxVars,
     allow_division : BOOLEAN, allow_power : BOOLEAN, allow_log : BOOLEAN]

HarnessIdle ==
    /\ ft = NotCalled
    /\ call = NotCalled

OracleIdle ==
    /\ engine = [inputs |-> <<>>, reverse |-> <<>>, forward |-> <<>>]
    /\ ground_truths = <<>>
    /\ check_mode = <<>>
    /\ check_out = NotCalled
    /\ all_out = NotCalled

InitGen ==
    /\ data \in BoundedSeq(Byte, MaxLen)
    /\ config \in Configs
    /\ gen_out = NotCalled
    /\ gen_out2 = NotCalled
    /\ OracleIdle
    /\ HarnessIdle

GenerateFromBytes ==
    /\ gen_out.st = "NotCalled"
    /\ \E h \in HashOrders(config) : gen_out' = generate_from_bytes(data, config, h)
    /\ UNCHANGED <<data, config, gen_out2>>
    /\ UNCHANGED oracleVars
    /\ UNCHANGED harnessVars

NextGen == GenerateFromBytes
SpecGen == InitGen /\ [][NextGen]_vars

----------------------------------------------------------------------------
(* SpecBinary: one call of generate_from_bytes on buffers that make the     *)
(* root a binary node over two literals (kind byte 2; for each operand a    *)
(* ratio byte selecting a literal and a selector byte) and end with the     *)
(* byte of the operator draw.                                               *)

LiteralBytes == {<<2, 0>>, <<2, 1>>, <<2, 2>>}

InitBinary ==
    /\ \E l \in LiteralBytes, r \in LiteralBytes, b \in 0..MaxOpByte :
          data = <<2>> \o l \o r \o <<b>>
    /\ \E div \in BOOLEAN, pow \in BOOLEAN :
          config = [DefaultConfig EXCEPT !.max_depth = 1,
                                         !.allow_division = div,
                                         !.allow_power = pow]
    /\ gen_out = NotCalled
    /\ gen_out2 = NotCalled
    /\ OracleIdle
    /\ HarnessIdle

NextBinary == GenerateFromBytes
SpecBinary == InitBinary /\ [][NextBinary]_vars

----------------------------------------------------------------------------
(* SpecOps: one call of generate_from_bytes on buffers that make the root a  *)
(* unary node (kind byte 1) over a binary node (kind byte 2) over two        *)
(* literals, followed by the byte of the binary operator draw and the byte   *)
(* of the unary operator draw, under every combination of the three flags.   *)

InitOps ==
    /\ \E l \in LiteralBytes, r \in LiteralBytes,
          b \in 0..MaxOpByte, c \in 0..MaxOpByte :
          data = <<1, 2>> \o l \o r \o <<b, c>>
    /\ \E div \in BOOLEAN, pow \in BOOLEAN, log \in BOOLEAN :
          config = [DefaultConfig EXCEPT !.max_depth = 2,
                                         !.allow_division = div,
                                         !.allow_power = pow,
                                         !.allow_log = log]
    /\ gen_out = NotCalled
    /\ gen_out2 = NotCalled
    /\ OracleIdle
    /\ HarnessIdle

NextOps == GenerateFromBytes
SpecOps == InitOps /\ [][NextOps]_vars

----------------------------------------------------------------------------
(* SpecLiteral: one call of generate_from_bytes with max_depth 0 on buffers *)
(* that make the root a number literal: a ratio byte that rejects the       *)
(* variable branch, the byte of the literal selector, and the eight bytes   *)
(* the arbitrary f64 is decoded from (little-endian). The bit patterns      *)
(* cover zeros, subnormals, values inside and outside both clamp ranges,    *)
(* both infinities and NaNs of both signs.                                  *)

F64Patterns ==
    {<<b1, 0, 0, 0, 0, 0, b7, b8>> :
        b1 \in {0, 1},
        b7 \in {0, 20, 36, 37, 185, 240, 241, 248},
        b8 \in {0, 63, 64, 127, 128, 192, 255}}

InitLiteral ==
    /\ \E sel \in 0..4, f \in F64Patterns : data = <<2, sel>> \o f
    /\ config = [DefaultConfig EXCEPT !.max_depth = 0]
    /\ gen_out = NotCalled
    /\ gen_out2 = NotCalled
    /\ OracleIdle
    /\ HarnessIdle

NextLiteral == GenerateFromBytes
SpecLiteral == InitLiteral /\ [][NextLiteral]_vars

----------------------------------------------------------------------------
(* SpecDet: two calls of generate_from_bytes with the same buffer and the  *)
(* same config (the default one but for max_depth); each call creates its  *)
(* own HashSet.                                                            *)

InitDet ==
    /\ data \in [1..DetLen -> DetByte]
    /\ config = [DefaultConfig EXCEPT !.max_depth = DetDepth]
    /\ gen_out = NotCalled
    /\ gen_out2 = NotCalled
    /\ OracleIdle
    /\ HarnessIdle

GenerateAgain ==
    /\ gen_out.st # "NotCalled"
    /\ gen_out2.st = "NotCalled"
    /\ \E h \in HashOrders(config) : gen_out2' = generate_from_bytes(data, config, h)
    /\ UNCHANGED <<data, config, gen_out>>
    /\ UNCHANGED oracleVars
    /\ UNCHANGED harnessVars

NextDet == GenerateFromBytes \/ GenerateAgain
SpecDet == InitDet /\ [][NextDet]_vars

----------------------------------------------------------------------------
(* SpecCheck: one Oracle::check call on one Jacobian entry                 *)

GenIdle ==
    /\ data = <<>>
    /\ config = DefaultConfig
    /\ gen_out = NotCalled
    /\ gen_out2 = NotCalled

\* 0, 1e-12, 2e-12, -2e-12, 1e6, 1e6 + 5e-4, 1e6 + 2e-3, -1e6, NaN, +inf, -inf
CheckVals ==
    {Fin(0, 0), Fin(0, 1), Fin(0, 2), Fin(0, -2),
     Fin(1, 0), Fin(1, 500000000), Fin(1, 2000000000), Fin(-1, 0),
     NaN, PInf, NInf}

InitCheck ==
    /\ GenIdle
    /\ engine \in [inputs : {<<Fin(0, 1)>>},
                   reverse : [1..1 -> CheckVals],
                   forward : [1..1 -> CheckVals]]
    /\ ground_truths \in [1..1 -> [name : {PyTorchName},
                                   jacobian : [1..1 -> CheckVals]]]
    /\ check_mode = STR_all
    /\ check_out = NotCalled
    /\ all_out = NotCalled
    /\ HarnessIdle

\* self.reverse_vs_forward.check(engine, None, i)
RevFwdCheck ==
    /\ check_out.st = "NotCalled"
    /\ \E i \in 0..(Len(engine.reverse) - 1) :
          check_out' = ReverseVsForwardCheck_check(engine, None, i)
    /\ UNCHANGED <<engine, ground_truths, check_mode, all_out>>
    /\ UNCHANGED genVars
    /\ UNCHANGED harnessVars

\* self.reverse_vs_gt.check(engine, Some(gt), i)
RevGtCheck ==
    /\ check_out.st = "NotCalled"
    /\ \E i \in 0..(Len(engine.reverse) - 1), g \in 1..Len(ground_truths) :
          check_out' = ADVsGroundTruthCheck_check("Reverse", engine,
                                                  Some(ground_truths[g]), i)
    /\ UNCHANGED <<engine, ground_truths, check_mode, all_out>>
    /\ UNCHANGED genVars
    /\ UNCHANGED harnessVars

\* self.forward_vs_gt.check(engine, Some(gt), i)
FwdGtCheck ==
    /\ check_out.st = "NotCalled"
    /\ \E i \in 0..(Len(engine.forward) - 1), g \in 1..Len(ground_truths) :
          check_out' = ADVsGroundTruthCheck_check("Forward", engine,
                                                  Some(ground_truths[g]), i)
    /\ UNCHANGED <<engine, ground_truths, check_mode, all_out>>
    /\ UNCHANGED genVars
    /\ UNCHANGED harnessVars

NextCheck == RevFwdCheck \/ RevGtCheck \/ FwdGtCheck
SpecCheck == InitCheck /\ [][NextCheck]_vars

----------------------------------------------------------------------------
(* SpecCheckAll: one FuzzingOracles::check_all call                        *)

STR_All     == <<65, 108, 108>>                      \* "All"
STR_REV_FWD == <<82, 69, 86, 95, 70, 87, 68>>        \* "REV_FWD"
STR_Rev_Gt  == <<82, 101, 118, 95, 71, 116>>         \* "Rev_Gt"
STR_FWD_gt  == <<70, 87, 68, 95, 103, 116>>          \* "FWD_gt"
STR_empty   == <<>>                                  \* ""
STR_both    == <<98, 111, 116, 104>>                 \* "both"

Modes ==
    {STR_all, STR_All, STR_rev_fwd, STR_REV_FWD, STR_rev_gt, STR_Rev_Gt,
     STR_fwd_gt, STR_FWD_gt, STR_empty, STR_both}

HarnessModes == {"PanicOnFirstError", "Continuous"}

\* Jacobian entries: 0 and 2e-12 differ by more than the tolerance
AllVals == {Fin(0, 0), Fin(0, 2)}
JacVecs == BoundedSeq(AllVals, MaxN)
\* The input point has one coordinate per entry of the reverse Jacobian
\* (run_ad_tests builds both from the same inputs): 1e6, 1e6 + 1e-12, ...
InputPoint(n) == [j \in 1..n |-> Fin(1, j - 1)]

InitCheckAll ==
    /\ GenIdle
    /\ engine \in {[inputs |-> InputPoint(Len(rv)), reverse |-> rv, forward |-> fw] :
                     rv \in JacVecs, fw \in JacVecs}
    /\ ground_truths \in
          BoundedSeq([name : {PyTorchName}, jacobian : JacVecs], MaxGT)
    /\ check_mode \in Modes
    /\ check_out = NotCalled
    /\ all_out = NotCalled
    /\ HarnessIdle

CheckAll ==
    /\ all_out.st = "NotCalled"
    /\ \E mode \in HarnessModes :
          all_out' = check_all(check_mode, engine, ground_truths, mode)
    /\ UNCHANGED <<engine, ground_truths, check_mode, check_out>>
    /\ UNCHANGED genVars
    /\ UNCHANGED harnessVars

NextCheckAll == CheckAll
SpecCheckAll == InitCheckAll /\ [][NextCheckAll]_vars

----------------------------------------------------------------------------
(* SpecOrder: one FuzzingOracles::check_all call on the results run_ad_tests *)
(* builds: both AD Jacobians and every ground-truth Jacobian have one entry *)
(* per input, and there may be several ground truths.                       *)

OrderModes == {STR_all, STR_REV_FWD, STR_Rev_Gt, STR_fwd_gt}
GtNames == <<PyTorchName, "Second", "Third", "Fourth">>

InitOrder ==
    /\ GenIdle
    /\ \E n \in 0..MaxN, G \in 0..OrdGT :
          /\ engine \in [inputs : {InputPoint(n)},
                         reverse : [1..n -> AllVals],
                         forward : [1..n -> AllVals]]
          /\ \E jacs \in [1..G -> [1..n -> AllVals]] :
                ground_truths =
                    [g \in 1..G |-> [name |-> GtNames[g], jacobian |-> jacs[g]]]
    /\ check_mode \in OrderModes
    /\ check_out = NotCalled
    /\ all_out = NotCalled
    /\ HarnessIdle

NextOrder == CheckAll
SpecOrder == InitOrder /\ [][NextOrder]_vars

----------------------------------------------------------------------------
(* SpecTarget: the test loop of fuzz_target (fuzz_target_ast.rs:154-183)    *)
(* over the evaluators it has built, one action per iteration.  The input   *)
(* point has passed the sanitization of lines 114-118 (two finite inputs,   *)
(* x > 0), so it has max_variables = 2 coordinates.                         *)

TargetPoint(n) == [j \in 1..n |-> Fin(0, j)]

Evaluators ==
    [num_inputs : 0..DefaultMaxVariables, behaviour : Behaviours]

InitTarget ==
    /\ GenIdle
    /\ OracleIdle
    /\ call = NotCalled
    /\ \E mode \in HarnessModes, evaluators \in BoundedSeq(Evaluators, MaxProgs) :
          /\ Len(evaluators) >= 1      \* if evaluators.is_empty() { return; }
          /\ ft = [st |-> "Running", mode |-> mode, cm |-> STR_all,
                   inputs |-> TargetPoint(DefaultMaxVariables),
                   evaluators |-> evaluators, idx |-> 0,
                   skipped |-> <<>>, tested |-> <<>>, logged |-> <<>>]

TargetStay == UNCHANGED <<call>> /\ UNCHANGED genVars /\ UNCHANGED oracleVars

\* if *num_inputs == 0 { continue; }
TargetSkip ==
    /\ ft.st = "Running"
    /\ ft.idx < Len(ft.evaluators)
    /\ ft.evaluators[ft.idx + 1].num_inputs = 0
    /\ ft' = [ft EXCEPT !.idx = @ + 1, !.skipped = Append(@, ft.idx)]
    /\ TargetStay

\* if let Err(e) = run_ad_tests(test_inputs, ...) { eprintln!(...); panic!(...) }
TargetTest ==
    /\ ft.st = "Running"
    /\ ft.idx < Len(ft.evaluators)
    /\ ft.evaluators[ft.idx + 1].num_inputs # 0
    /\ LET evaluator == ft.evaluators[ft.idx + 1]
           num_needed == evaluator.num_inputs
       IN IF num_needed > Len(ft.inputs)
          THEN ft' = [ft EXCEPT !.st = "Panicked"]
          ELSE
          LET test_inputs == SubSeq(ft.inputs, 1, num_needed)
              r == run_ad_tests(test_inputs, evaluator, ft.cm, ft.mode)
              t == Append(ft.tested, [idx |-> ft.idx, st |-> r.st,
                                      reached |-> r.reached])
          IN IF r.st = "Err"
             THEN ft' = [ft EXCEPT !.st = "Panicked", !.tested = t,
                                   !.logged = Append(@, ft.idx)]
             ELSE IF r.st = "Panic"
             THEN ft' = [ft EXCEPT !.st = "Panicked", !.tested = t]
             ELSE ft' = [ft EXCEPT !.idx = @ + 1, !.tested = t]
    /\ TargetStay

\* the end of the for loop and of the closure
TargetReturn ==
    /\ ft.st = "Running"
    /\ ft.idx >= Len(ft.evaluators)
    /\ ft' = [ft EXCEPT !.st = "Returned"]
    /\ TargetStay

NextTarget == TargetSkip \/ TargetTest \/ TargetReturn
SpecTarget == InitTarget /\ [][NextTarget]_vars

----------------------------------------------------------------------------
(* SpecAdapter: one call of run_ad_tests or of                              *)
(* PyTorchEvaluator::compute_pytorch with an input point of any length      *)

Tensors(n) == [j \in 1..n |-> [t |-> "tensor", j |-> j - 1]]

AdapterExprs ==
    {Number(F64One), Id(VarName(0)), Id(VarName(1)), Id(VarName(2)),
     UnOp("Sin", Id(VarName(0))), BinOp("Add", Id(VarName(0)), Id(VarName(1))),
     BinOp("Mul", Id(VarName(1)), Id(VarName(2)))}

AdapterCalls ==
    [fn : {"run_ad_tests"},
     inputs : {TargetPoint(n) : n \in 0..(MaxArity + 1)},
     calc : [num_inputs : 0..MaxArity, behaviour : Behaviours],
     mode : HarnessModes,
     out : {NotCalled}]
    \cup
    [fn : {"compute_pytorch"},
     inputs : {Tensors(n) : n \in 0..(MaxArity + 1)},
     self : [expr : AdapterExprs, num_inputs : 0..MaxArity],
     out : {NotCalled}]

CallStay == UNCHANGED <<ft>> /\ UNCHANGED genVars /\ UNCHANGED oracleVars

InitAdapter ==
    /\ GenIdle
    /\ OracleIdle
    /\ ft = NotCalled
    /\ call \in AdapterCalls

RunAdTests ==
    /\ call.fn = "run_ad_tests"
    /\ call.out = NotCalled
    /\ call' = [call EXCEPT !.out =
                   run_ad_tests(call.inputs, call.calc, STR_all, call.mode)]
    /\ CallStay

ComputePytorch ==
    /\ call.fn = "compute_pytorch"
    /\ call.out = NotCalled
    /\ call' = [call EXCEPT !.out = compute_pytorch(call.self, call.inputs)]
    /\ CallStay

NextAdapter == RunAdTests \/ ComputePytorch
SpecAdapter == InitAdapter /\ [][NextAdapter]_vars

----------------------------------------------------------------------------
(* SpecDecode: one decode call of either decoder.  The buffers carry a      *)
(* different byte at every position, so that windows can be told apart.     *)

DecLen == 8 * MaxDecInputs + 1
DecBuffer(len, first) == [j \in 1..len |-> (first + j - 1) % 256]

DecodeCalls ==
    [fn : {"decode"},
     decoder : {"TwoInputDecoder"},
     num_inputs : {2},
     data : {DecBuffer(len, first) : len \in 0..DecLen, first \in {0, 100, 250}},
     out : {NotCalled}]
    \cup
    [fn : {"decode"},
     decoder : {"GeneralInputDecoder"},
     num_inputs : 0..MaxDecInputs,
     data : {DecBuffer(len, first) : len \in 0..DecLen, first \in {0, 100, 250}},
     out : {NotCalled}]

InitDecode ==
    /\ GenIdle
    /\ OracleIdle
    /\ ft = NotCalled
    /\ call \in DecodeCalls

DecodeTwo ==
    /\ call.fn = "decode"
    /\ call.decoder = "TwoInputDecoder"
    /\ call.out = NotCalled
    /\ call' = [call EXCEPT !.out = TwoInputDecoder_decode(call.data)]
    /\ CallStay

DecodeGeneral ==
    /\ call.fn = "decode"
    /\ call.decoder = "GeneralInputDecoder"
    /\ call.out = NotCalled
    /\ call' = [call EXCEPT !.out =
                   GeneralInputDecoder_decode(call.num_inputs, call.data)]
    /\ CallStay

NextDecode == DecodeTwo \/ DecodeGeneral
SpecDecode == InitDecode /\ [][NextDecode]_vars

----------------------------------------------------------------------------
(* SpecEval: one call of evaluate.  The expressions are the trees of depth  *)
(* up to EvalDepth in which every node has at most one child that is not a  *)
(* leaf; they cover every node kind, every operand position, and Let with   *)
(* one and with two bindings.  The environments are those compute_pytorch   *)
(* and eval_expr build for 0, 1 and 2 inputs; the name t is in none.        *)

X0 == VarName(0)
X1 == VarName(1)

ExprLeaves ==
    {Number(F64One), Number(F64Two), Boolean(TRUE), Id(X0), Id(X1), Id("t"),
     Block(<<>>)}

Contexts(s) ==
    {UnOp("Neg", s), UnOp("Tan", s),
     BinOp("Add", s, Id(X0)), BinOp("Pow", Id("t"), s),
     BinOp("Sub", s, Number(F64One)),
     Let(<<Binding("t", s)>>, Id("t")),
     Let(<<Binding("t", Number(F64Two))>>, s),
     Let(<<Binding(X0, Id("t"))>>, s),
     Let(<<Binding(X0, s)>>, Id(X0)),
     Let(<<Binding("t", Number(F64One)), Binding("t", s)>>, Id("t")),
     Let(<<Binding("t", Number(F64Two)), Binding(X1, Id("t"))>>, s),
     If(s, Number(F64One), Number(F64Two)), Loop(s), Break(s), Set("t", s),
     Cast("Float", s),
     Block(<<s>>), Block(<<Id("t"), s>>), Block(<<s, Number(F64One)>>)}

RECURSIVE ExprsOfDepth(_)
ExprsOfDepth(d) ==
    IF d = 0 THEN ExprLeaves
    ELSE ExprLeaves \cup UNION {Contexts(s) : s \in ExprsOfDepth(d - 1)}

EvalEnvs == {InputEnv(Tensors(n), n) : n \in 0..DefaultMaxVariables}

InitEval ==
    /\ GenIdle
    /\ OracleIdle
    /\ ft = NotCalled
    /\ call \in [fn : {"evaluate"}, expr : ExprsOfDepth(EvalDepth),
                  env : EvalEnvs, out : {NotCalled}]

Evaluate ==
    /\ call.fn = "evaluate"
    /\ call.out = NotCalled
    /\ call' = [call EXCEPT !.out = evaluate(call.expr, call.env)]
    /\ CallStay

NextEval == Evaluate
SpecEval == InitEval /\ [][NextEval]_vars

----------------------------------------------------------------------------
(* SpecCalc: one call of Calculator::eval_expr, on an AdEvaluator over an   *)
(* expression of the evaluator's language or on an RpnEvaluator over a      *)
(* token list.                                                              *)

RpnTokens == {"x", "y", "2", "sin", "exp", "sqrt", "+", "*", "pow", "tan"}

CalcCalls ==
    [fn : {"AdEvaluator"},
     self : [expr : ExprsOfDepth(1), num_inputs : 0..MaxArity],
     inputs : {Tensors(n) : n \in 0..MaxArity},
     out : {NotCalled}]
    \cup
    [fn : {"RpnEvaluator"},
     self : [expression_rpn : BoundedSeq(RpnTokens, MaxTokens)],
     coincide : BOOLEAN,
     out : {NotCalled}]

InitCalc ==
    /\ GenIdle
    /\ OracleIdle
    /\ ft = NotCalled
    /\ call \in CalcCalls

AdEvalExpr ==
    /\ call.fn = "AdEvaluator"
    /\ call.out = NotCalled
    /\ call' = [call EXCEPT !.out = AdEvaluator_eval_expr(call.self, call.inputs)]
    /\ CallStay

RpnEvalExpr ==
    /\ call.fn = "RpnEvaluator"
    /\ call.out = NotCalled
    /\ call' = [call EXCEPT !.out =
                   RpnEvaluator_eval_expr(call.self, Tensors(2)[1], Tensors(2)[2],
                                          call.coincide)]
    /\ CallStay

NextCalc == AdEvalExpr \/ RpnEvalExpr
SpecCalc == InitCalc /\ [][NextCalc]_vars

----------------------------------------------------------------------------
(* SpecConfig: one call of get_fuzz_config or get_ast_config under an       *)
(* environment whose variables are unset or hold one of a few strings.      *)

\* "0", "1", "3", "+2", "12", "", "-1", "abc", "2.5", "1 "
NumStrings ==
    {<<48>>, <<49>>, <<51>>, <<43, 50>>, <<49, 50>>, <<>>, <<45, 49>>,
     <<97, 98, 99>>, <<50, 46, 53>>, <<49, 32>>}

\* "yes", "1", "" besides the spellings of true and false
FlagStrings ==
    {STR_true, <<84, 82, 85, 69>>, STR_false, <<70, 97, 108, 115, 101>>,
     <<121, 101, 115>>, <<49>>, <<>>}

OptionOf(S) == {None} \cup {Some(x) : x \in S}

ConfigCalls ==
    [fn : {"get_fuzz_config"},
     env : [FUZZ_MODE : OptionOf({STR_continuous, STR_both, <<>>}),
            FUZZ_TESTS : OptionOf(NumStrings),
            FUZZ_ORACLE : OptionOf({STR_all, STR_Rev_Gt, STR_both})],
     out : {NotCalled}]
    \cup
    [fn : {"get_ast_config"},
     env : [AST_MAX_DEPTH : OptionOf(NumStrings),
            AST_MAX_VARIABLES : OptionOf({<<48>>, <<51>>, <<>>, <<45, 49>>}),
            AST_ALLOW_DIVISION : OptionOf(FlagStrings),
            AST_ALLOW_POWER : OptionOf(FlagStrings),
            AST_ALLOW_LOG : OptionOf(FlagStrings)],
     out : {NotCalled}]

InitConfig ==
    /\ GenIdle
    /\ OracleIdle
    /\ ft = NotCalled
    /\ call \in ConfigCalls

GetFuzzConfig ==
    /\ call.fn = "get_fuzz_config"
    /\ call.out = NotCalled
    /\ call' = [call EXCEPT !.out = [st |-> "Ok", v |-> get_fuzz_config(call.env)]]
    /\ CallStay

GetAstConfig ==
    /\ call.fn = "get_ast_config"
    /\ call.out = NotCalled
    /\ call' = [call EXCEPT !.out = [st |-> "Ok", v |-> get_ast_config(call.env)]]
    /\ CallStay

NextConfig == GetFuzzConfig \/ GetAstConfig
SpecConfig == InitConfig /\ [][NextConfig]_vars

----------------------------------------------------------------------------
(* SpecFuzz: one iteration of the AST fuzz target.  data is the fuzzer's    *)
(* byte slice: the bytes of the input point (a first f64 drawn from a few   *)
(* bit patterns, then zeros but for the byte that ends the second f64)      *)
(* followed by ast_data, whose byte at 0-based offset j is (j + k) % 3 so   *)
(* that windows at different offsets hold different programs.  config is    *)
(* what get_ast_config returned and ft.fuzz what get_fuzz_config returned.  *)

\* 1.0, 2.0, 0.0, -1.0, a NaN, 1e10 with its exponent raised by one
FuzzPoints ==
    {F64One, F64Two, F64Zero, <<0, 0, 0, 0, 0, 0, 240, 191>>,
     <<0, 0, 0, 0, 0, 0, 248, 127>>, <<0, 0, 0, 32, 95, 160, 18, 66>>}

AstLens == {0, 1, 2, 3, 33, 34, 35, 65, 66}

PointBytes(x, b9, n) ==
    [j \in 1..n |-> IF j <= 8 THEN x[j] ELSE IF j = 9 THEN b9 ELSE 0]

AstBytes(len, k) == [j \in 1..len |-> (j - 1 + k) % 3]

FuzzData(num_variables) ==
    {PointBytes(x, b9, num_variables * 8) \o AstBytes(len, k) :
        x \in FuzzPoints, b9 \in {0, 127}, len \in AstLens, k \in 0..2}
    \cup {<<>>, <<0, 0, 0>>}

InitFuzz ==
    /\ OracleIdle
    /\ call = NotCalled
    /\ gen_out = NotCalled
    /\ gen_out2 = NotCalled
    /\ \E depth \in 1..MaxDepth, num_variables \in 0..MaxVars :
          /\ config = [DefaultConfig EXCEPT !.max_depth = depth,
                                             !.max_variables = num_variables]
          /\ data \in FuzzData(num_variables)
    /\ \E mode \in HarnessModes, n \in 0..MaxTests :
          ft = [st |-> "Start", why |-> "",
                fuzz |-> [mode |-> mode, num_generated_tests |-> n,
                          oracle_selection |-> STR_all],
                inputs |-> <<>>, ast_data |-> <<>>, i |-> 0, windows |-> <<>>,
                evaluators |-> <<>>, idx |-> 0]

FuzzStay == UNCHANGED <<call>> /\ UNCHANGED genVars /\ UNCHANGED oracleVars

FuzzDecode ==
    /\ ft.st = "Start"
    /\ ft' = fuzz_target_decode(ft, data, config)
    /\ FuzzStay

FuzzGenerate ==
    /\ ft.st = "Generating"
    /\ ft.i < ft.fuzz.num_generated_tests
    /\ \E h \in HashOrders(config) : ft' = fuzz_target_generate(ft, config, h)
    /\ FuzzStay

\* if evaluators.is_empty() { return; }
FuzzGenerated ==
    /\ ft.st = "Generating"
    /\ ft.i >= ft.fuzz.num_generated_tests
    /\ ft' = IF ft.evaluators = <<>> THEN FtReturned(ft, "no program")
              ELSE [ft EXCEPT !.st = "Testing"]
    /\ FuzzStay

\* lines 154-183: one iteration of the test loop; what the engines compute
\* for the program is the calculator's behaviour
FuzzTest ==
    /\ ft.st = "Testing"
    /\ ft.idx < Len(ft.evaluators)
    /\ LET num_needed == ft.evaluators[ft.idx + 1].num_inputs IN
       IF num_needed = 0 THEN ft' = [ft EXCEPT !.idx = @ + 1]
       ELSE IF num_needed > Len(ft.inputs) THEN ft' = FtPanicked(ft, "inputs[..num_needed]")
       ELSE
       \E behaviour \in Behaviours :
          LET test_inputs == SubSeq(ft.inputs, 1, num_needed)
              calc == [num_inputs |-> num_needed, behaviour |-> behaviour]
              r == run_ad_tests(test_inputs, calc, ft.fuzz.oracle_selection,
                                ft.fuzz.mode)
          IN IF r.st = "Err"
             THEN ft' = [ft EXCEPT !.st = "Aborted", !.why = "Oracle check failed"]
             ELSE IF r.st = "Panic" THEN ft' = FtPanicked(ft, "check_all")
             ELSE ft' = [ft EXCEPT !.idx = @ + 1]
    /\ FuzzStay

FuzzReturn ==
    /\ ft.st = "Testing"
    /\ ft.idx >= Len(ft.evaluators)
    /\ ft' = FtReturned(ft, "done")
    /\ FuzzStay

NextFuzz == FuzzDecode \/ FuzzGenerate \/ FuzzGenerated \/ FuzzTest \/ FuzzReturn
SpecFuzz == InitFuzz /\ [][NextFuzz]_vars

----------------------------------------------------------------------------
(* Claims about the generator *)

Called == gen_out.st # "NotCalled"
Succeeded == gen_out.st = "Ok"

\* C1: whenever generate_from_bytes succeeds, the returned expression has tree
\* depth at most config.max_depth (a terminal has depth 0, an UnOp/BinOp node
\* is one deeper than its deepest child).
C1_DepthBound == Succeeded => TreeDepth(gen_out.expr) <= config.max_depth

C1_Witness ==
    /\ Succeeded
    /\ config.max_depth = 2
    /\ TreeDepth(gen_out.expr) = 2

\* C2: for every config and every buffer, a successful generate_from_bytes
\* returns num_inputs <= config.max_variables.
C2_NumInputsCapped == Succeeded => gen_out.num_inputs <= config.max_variables

\* C3: after a successful generation used_vars is exactly {0..num_inputs-1}
\* with num_inputs = |used_vars|; whenever a variable is introduced (in any
\* run, successful or not) it gets the index var_stack.len(), and afterwards
\* used_vars is the set of elements of var_stack.
C3_Contiguous ==
    Called =>
        /\ Succeeded =>
              /\ gen_out.used_vars = 0..(gen_out.num_inputs - 1)
              /\ gen_out.num_inputs = Cardinality(gen_out.used_vars)
        /\ \A n \in 1..Len(gen_out.run.log) :
              LET ev == gen_out.run.log[n] IN
              /\ ev.idx = ev.len_before
              /\ ev.used = {ev.stack[i] : i \in 1..Len(ev.stack)}
        /\ gen_out.run.used_vars =
              {gen_out.run.var_stack[i] : i \in 1..Len(gen_out.run.var_stack)}

C3_Witness ==
    /\ Succeeded
    /\ gen_out.num_inputs = 2
    /\ Len(gen_out.run.log) = 2
    /\ gen_out.used_vars = {0, 1}

\* C4: if any draw of the generation is made when too few unread bytes remain
\* to satisfy it, generate_from_bytes returns an error (never Ok).
C4_ExhaustionIsError == (Called /\ gen_out.run.starved) => gen_out.st = "NotEnoughData"

\* C5: two calls of generate_from_bytes with the same buffer and the same
\* config return the same outcome, the same expression and the same used_vars.
C5_Deterministic ==
    (gen_out.st # "NotCalled" /\ gen_out2.st # "NotCalled") =>
        /\ gen_out.st = gen_out2.st
        /\ gen_out.expr = gen_out2.expr
        /\ gen_out.used_vars = gen_out2.used_vars

\* C19: for every buffer and every config, generate_from_bytes terminates
\* with Ok or Err after finitely many draws (at most three per call of
\* generate_expr_arbitrary plus one per operator, so at most 4 per byte read
\* plus 4), and the nesting of generate_expr_arbitrary calls never exceeds
\* max_depth + 1.
C19_Terminates ==
    Called =>
        /\ gen_out.st \in {"Ok", "NotEnoughData"}
        /\ gen_out.run.draws <= 4 * Len(data) + 4
        /\ gen_out.run.maxnest <= config.max_depth + 1
        /\ gen_out.run.nest = 0

\* The operators the flags enable
EnabledOps(cfg) ==
    {"Add", "Sub", "Mul"}
        \cup (IF cfg.allow_division THEN {"Div"} ELSE {})
        \cup (IF cfg.allow_power THEN {"Pow"} ELSE {})

\* C20: for every combination of allow_division and allow_power, the
\* operator of a generated binary node is the one its draw value selects,
\* the draw values 0..num_ops-1 select exactly the enabled operators (Add,
\* Sub, Mul always, Div iff allow_division, Pow iff allow_power), and each
\* enabled operator is selected by exactly one draw value.
C20_BinaryOpDraw ==
    (Succeeded /\ gen_out.expr.tag = "BinOp") =>
        LET draws == 0..(NumOps(config) - 1) IN
        /\ gen_out.expr.op = BinaryOp(config, data[Len(data)] % NumOps(config))
        /\ {BinaryOp(config, c) : c \in draws} = EnabledOps(config)
        /\ \A op \in EnabledOps(config) :
              Cardinality({c \in draws : BinaryOp(config, c) = op}) = 1

UnaryDraws == 0..UnaryDrawMax

\* C21: with allow_log enabled the draw of generate_unary selects among the
\* seven operators Neg, Sin, Cos, Exp, Sqrt, Log and Abs, each by exactly one
\* draw value; with allow_log disabled the draw value of Log yields Sqrt and
\* the six operators Neg, Sin, Cos, Exp, Sqrt and Abs are all selectable.
\* The operator of a generated unary node is one of the selectable ones.
C21_UnaryOpDraw ==
    (Succeeded /\ gen_out.expr.tag = "UnOp") =>
        LET selectable == {UnaryOp(config, c) : c \in UnaryDraws} IN
        /\ gen_out.expr.op \in selectable
        /\ config.allow_log =>
              /\ selectable = {"Neg", "Sin", "Cos", "Exp", "Sqrt", "Log", "Abs"}
              /\ \A op \in selectable :
                    Cardinality({c \in UnaryDraws : UnaryOp(config, c) = op}) = 1
        /\ ~config.allow_log =>
              /\ \A c \in UnaryDraws :
                    UnaryOp([config EXCEPT !.allow_log = TRUE], c) = "Log"
                        => UnaryOp(config, c) = "Sqrt"
              /\ selectable = {"Neg", "Sin", "Cos", "Exp", "Sqrt", "Abs"}

\* C22: no generated expression contains an operator of a disabled class:
\* no Div when allow_division is false, no Pow when allow_power is false and
\* no Log when allow_log is false.
C22_DisabledOpsAbsent ==
    Succeeded =>
        /\ ~config.allow_division => "Div" \notin Ops(gen_out.expr)
        /\ ~config.allow_power => "Pow" \notin Ops(gen_out.expr)
        /\ ~config.allow_log => "Log" \notin Ops(gen_out.expr)

\* All three classes are disabled, the unary draw is the value of Log and the
\* binary draw is the last value of its range; the root came out as Sqrt.
C22_Witness ==
    /\ Succeeded
    /\ ~config.allow_division /\ ~config.allow_power /\ ~config.allow_log
    /\ Len(data) = 8 /\ data[8] = 5 /\ data[7] = 2
    /\ gen_out.expr.tag = "UnOp" /\ gen_out.expr.op = "Sqrt"
    /\ gen_out.expr.e.tag = "BinOp" /\ gen_out.expr.e.op = "Mul"

\* lo <= x <= hi on f64 values (false when x is NaN)
BitsWithin(x, lo, hi) ==
    ~BitsIsNaN(x) /\ ~BitsLt(x, lo) /\ ~BitsLt(hi, x)

\* C23: every Number literal of a generated expression is 0.0, 1.0 or 2.0, or
\* lies within [-10, 10], or lies within [0.1, 5]; it is never NaN and never
\* infinite, whatever eight bytes the arbitrary f64 is decoded from.
C23_LiteralsFinite ==
    (Succeeded /\ gen_out.expr.tag = "Number") =>
        LET v == gen_out.expr.val IN
        /\ ~BitsIsNaN(v)
        /\ ~BitsIsInf(v)
        /\ \/ v \in {F64Zero, F64One, F64Two}
           \/ BitsWithin(v, F64NegTen, F64Ten)
           \/ BitsWithin(v, F64Tenth, F64Five)

\* The node kinds and the variable names that occur in an expression
RECURSIVE Tags(_)
Tags(e) ==
    IF e.tag = "UnOp" THEN {e.tag} \cup Tags(e.e)
    ELSE IF e.tag = "BinOp" THEN {e.tag} \cup Tags(e.l) \cup Tags(e.r)
    ELSE {e.tag}

RECURSIVE Names(_)
Names(e) ==
    IF e.tag = "UnOp" THEN Names(e.e)
    ELSE IF e.tag = "BinOp" THEN Names(e.l) \cup Names(e.r)
    ELSE IF e.tag = "Id" THEN {e.name}
    ELSE {}

\* the environment that binds x_0 .. x_{n-1}, each to its own value
PointEnv(n) ==
    [name \in {"x_" \o ToString(i) : i \in 0..(n - 1)} |->
        [t |-> "input", name |-> name]]

\* C27: a generated expression consists of Number, Id, UnOp and BinOp nodes
\* only, the variable names in it are exactly x_i for i in used_vars, and
\* evaluating it in an environment that binds x_0 .. x_{num_inputs-1} never
\* returns an evaluator error.
C27_GeneratedEvaluates ==
    Succeeded =>
        /\ Tags(gen_out.expr) \subseteq {"Number", "Id", "UnOp", "BinOp"}
        /\ Names(gen_out.expr) = {"x_" \o ToString(i) : i \in gen_out.used_vars}
        /\ evaluate(gen_out.expr, PointEnv(gen_out.num_inputs)).st = "Ok"

\* A binary node over both variables, evaluated to the backend's term.
C27_Witness ==
    /\ Succeeded
    /\ gen_out.num_inputs = 2
    /\ gen_out.expr.tag = "BinOp"
    /\ Names(gen_out.expr) = {"x_0", "x_1"}
    /\ evaluate(gen_out.expr, PointEnv(2)).st = "Ok"
    /\ evaluate(gen_out.expr, PointEnv(1)).st = "Err"

----------------------------------------------------------------------------
(* Claims about the oracle checks *)

Checked == check_out.st = "Called"

\* |a - b| > max(1e-12, |b| * 1e-9) for finite a and b, on the integers k, d
AbsInt(n) == IF n < 0 THEN -n ELSE n
RelUnits(b) ==
    IF b.k = 0 THEN AbsInt(b.d) \div Giga
    ELSE AbsInt(b.k) * Giga + ((IF b.k > 0 THEN b.d ELSE -b.d) \div Giga)
ExceedsTolerance(a, b) ==
    \/ a.k # b.k
    \/ /\ AbsInt(a.d - b.d) > 1
       /\ AbsInt(a.d - b.d) > RelUnits(b)

\* C6: for a finite compared value a and a finite reference value b, each
\* check returns an error iff |a - b| > max(1e-12, |b| * 1e-9); with b = 0 a
\* difference of 2e-12 fails and one of 1e-12 passes, with b = 1e6 a
\* difference of 5e-4 passes and one of 2e-3 fails.
C6_HybridTolerance ==
    (Checked /\ is_finite(check_out.a) /\ is_finite(check_out.b)) =>
        /\ (check_out.res = "Err") <=> ExceedsTolerance(check_out.a, check_out.b)
        /\ (check_out.b = Fin(0, 0) /\ check_out.a = Fin(0, 2))
              => check_out.res = "Err"
        /\ (check_out.b = Fin(0, 0) /\ check_out.a = Fin(0, 1))
              => check_out.res = "Ok"
        /\ (check_out.b = Fin(1, 0) /\ check_out.a = Fin(1, 500000000))
              => check_out.res = "Ok"
        /\ (check_out.b = Fin(1, 0) /\ check_out.a = Fin(1, 2000000000))
              => check_out.res = "Err"

C6_Witness ==
    /\ Checked
    /\ check_out.kind = "fwd_gt"
    /\ check_out.b = Fin(1, 0)
    /\ check_out.a = Fin(1, 500000000)
    /\ check_out.res = "Ok"

\* C7: for both oracle kinds, check returns an error whenever exactly one of
\* the two compared values is NaN.
C7_NaNMismatchFails ==
    (Checked /\ check_out.res # "Panic"
       /\ is_nan(check_out.a) # is_nan(check_out.b))
    => check_out.res = "Err"

----------------------------------------------------------------------------
(* Claims about check_all *)

AllCalled == all_out.st # "NotCalled"

\* C9: check_all returns the dimension-mismatch error whenever engine.reverse
\* and engine.forward differ in length, for every selector and every list of
\* ground truths, and no oracle check is run before it.
C9_DimensionMismatch ==
    (AllCalled /\ Len(engine.reverse) # Len(engine.forward)) =>
        /\ all_out.st = "Err"
        /\ all_out.err.kind = "DimMismatch"
        /\ all_out.checks = <<>>

C9_Witness ==
    /\ AllCalled
    /\ Len(engine.reverse) = 2
    /\ Len(engine.forward) = 1
    /\ Len(ground_truths) >= 1
    /\ check_mode = STR_All
    /\ all_out.st = "Err"

\* The kind a selector string stands for, by table
KindOfMode(cm) ==
    CASE cm \in {STR_all, STR_All} -> "all"
      [] cm \in {STR_rev_fwd, STR_REV_FWD} -> "rev_fwd"
      [] cm \in {STR_rev_gt, STR_Rev_Gt} -> "rev_gt"
      [] cm \in {STR_fwd_gt, STR_FWD_gt} -> "fwd_gt"
      [] OTHER -> "none"
Wanted(kind) == KindOfMode(check_mode) \in {"all", kind}

SlotKind(p) == IF p = 1 THEN "rev_fwd" ELSE IF p % 2 = 0 THEN "rev_gt" ELSE "fwd_gt"
SlotGt(p) == p \div 2
FullSchedule(n, G) ==
    [q \in 1..(n * (1 + 2 * G)) |->
        [kind |-> SlotKind(((q - 1) % (1 + 2 * G)) + 1),
         i |-> (q - 1) \div (1 + 2 * G),
         g |-> SlotGt(((q - 1) % (1 + 2 * G)) + 1)]]
WantedSlot(c) == Wanted(c.kind)
Schedule ==
    SelectSeq(FullSchedule(Len(engine.reverse), Len(ground_truths)), WantedSlot)
ResultOf(c) ==
    IF c.kind = "rev_fwd" THEN ReverseVsForwardCheck_check(engine, None, c.i).res
    ELSE IF c.kind = "rev_gt"
    THEN ADVsGroundTruthCheck_check("Reverse", engine, Some(ground_truths[c.g]), c.i).res
    ELSE ADVsGroundTruthCheck_check("Forward", engine, Some(ground_truths[c.g]), c.i).res

\* C11: check_all runs its checks in the order of Schedule and stops at the
\* first one that fails: the checks it ran are a prefix of Schedule, all but
\* the last passed, a call that returns Ok ran the whole Schedule, and a call
\* that returns an error ran exactly up to the first failing check of
\* Schedule, whose kind (and ground-truth name) the error reports together
\* with the input point engine.inputs.
C11_FixedOrderFirstFailure ==
    (AllCalled /\ Len(engine.reverse) = Len(engine.forward)
        /\ all_out.st # "Panic") =>
        LET tr == all_out.checks
            m == Len(tr)
            sch == Schedule
        IN
        /\ m <= Len(sch)
        /\ \A q \in 1..m :
              /\ tr[q].kind = sch[q].kind
              /\ tr[q].i = sch[q].i
              /\ tr[q].g = sch[q].g
              /\ tr[q].res = ResultOf(sch[q])
        /\ \A q \in 1..(m - 1) : ResultOf(sch[q]) = "Ok"
        /\ all_out.st \in {"Ok", "Err"}
        /\ all_out.st = "Ok" =>
              /\ m = Len(sch)
              /\ \A q \in 1..m : ResultOf(sch[q]) = "Ok"
        /\ all_out.st = "Err" =>
              /\ m >= 1
              /\ ResultOf(sch[m]) = "Err"
              /\ all_out.err.kind = "OracleFailed"
              /\ all_out.err.what = sch[m].kind
              /\ all_out.err.inputs = engine.inputs
              /\ sch[m].g > 0 =>
                    all_out.err.gt_name = ground_truths[sch[m].g].name

\* The first failure is rev_gt against the second ground truth at index 0
\* and a later check of the schedule fails too.
C11_Witness ==
    /\ AllCalled
    /\ check_mode = STR_all
    /\ Len(engine.reverse) = 2
    /\ Len(ground_truths) = 2
    /\ all_out.st = "Err"
    /\ Len(all_out.checks) = 4
    /\ all_out.err.what = "rev_gt"
    /\ all_out.err.gt_name = "Second"
    /\ \E q \in 5..Len(Schedule) : ResultOf(Schedule[q]) = "Err"

\* C28: when check_mode is none of "all", "rev_fwd", "rev_gt" and "fwd_gt"
\* (ignoring ASCII case), check_all runs no check and returns Ok, for every
\* pair of AD Jacobians of equal length and every list of ground truths.
C28_UnknownModeRunsNothing ==
    (AllCalled /\ Len(engine.reverse) = Len(engine.forward)
        /\ KindOfMode(check_mode) = "none") =>
        /\ all_out.st = "Ok"
        /\ all_out.checks = <<>>

\* Mode "both" with Jacobians that fail rev_fwd at index 1 and a ground truth
\* that is shorter than the AD Jacobians.
C28_Witness ==
    /\ AllCalled
    /\ check_mode = STR_both
    /\ Len(engine.reverse) = 2
    /\ Len(engine.forward) = 2
    /\ engine.reverse[2] # engine.forward[2]
    /\ Len(ground_truths) = 1
    /\ Len(ground_truths[1].jacobian) = 1
    /\ all_out.st = "Ok"

\* C29: with AD Jacobians of equal length and any list of ground truths,
\* check_all returns Ok or Err and never reads a Jacobian entry out of range,
\* also when a ground-truth Jacobian is shorter than the AD Jacobians.
C29_NoOutOfRangeRead ==
    (AllCalled /\ Len(engine.reverse) = Len(engine.forward)) =>
        all_out.st \in {"Ok", "Err"}

----------------------------------------------------------------------------
(* Claims about the harness *)

\* The programs of the run that have inputs, and those that were tested
Testable == {n \in 0..(Len(ft.evaluators) - 1) : ft.evaluators[n + 1].num_inputs # 0}
TestedIdx == {ft.tested[q].idx : q \in 1..Len(ft.tested)}

\* C12: the run mode governs what an oracle failure does.  Under
\* PanicOnFirstError the run aborts at the first failing program (nothing is
\* tested after it); under Continuous the run never aborts: every failure is
\* logged and a run that has ended has tested every program with inputs.
C12_ModeGovernsEscalation ==
    (ft.st # "NotCalled") =>
        /\ ft.mode = "PanicOnFirstError" =>
              /\ \A q \in 1..(Len(ft.tested) - 1) : ft.tested[q].st = "Ok"
              /\ (\E q \in 1..Len(ft.tested) : ft.tested[q].st = "Err")
                    => ft.st = "Panicked"
        /\ ft.mode = "Continuous" =>
              /\ ft.st # "Panicked"
              /\ \A q \in 1..Len(ft.tested) :
                    ft.tested[q].st = "Err" =>
                        \E l \in 1..Len(ft.logged) : ft.logged[l] = ft.tested[q].idx
              /\ ft.st = "Returned" => TestedIdx = Testable

CallDone == call # NotCalled /\ call.out # NotCalled

\* C13: a call of run_ad_tests or of compute_pytorch whose input point has a
\* length other than the expression's num_inputs (fewer or more) returns Err.
C13_ArityMismatchIsError ==
    (CallDone /\ call.fn = "run_ad_tests"
        /\ Len(call.inputs) # call.calc.num_inputs => call.out.st = "Err")
    /\
    (CallDone /\ call.fn = "compute_pytorch"
        /\ Len(call.inputs) # call.self.num_inputs => call.out.st = "Err")

Decoded == CallDone /\ call.fn = "decode"

\* C14: for both decoders, every n = num_inputs and every buffer of at least
\* 8n bytes, decode returns Ok with n values, value i being the double whose
\* little-endian bytes are bytes [8i, 8i+8) of the buffer.
C14_DecodeWindows ==
    (Decoded /\ Len(call.data) >= 8 * call.num_inputs) =>
        /\ call.out.st = "Ok"
        /\ Len(call.out.v) = call.num_inputs
        /\ \A i \in 0..(call.num_inputs - 1) :
              call.out.v[i + 1] = SubSeq(call.data, 8 * i + 1, 8 * i + 8)

\* C15: for both decoders and every num_inputs, decode returns Err (it
\* neither panics nor returns Ok) when the buffer has fewer than
\* num_inputs * 8 bytes.
C15_ShortBufferIsErr ==
    (Decoded /\ Len(call.data) < call.num_inputs * 8) => call.out.st = "Err"

SkippedIdx == {ft.skipped[q] : q \in 1..Len(ft.skipped)}

\* C16: a generated program with num_inputs = 0 reaches neither the AD
\* engines nor the ground-truth calculator nor the oracles: the test loop of
\* the fuzz target skips it (it is never passed to run_ad_tests), and
\* run_ad_tests called for it with the empty input point returns Ok having
\* reached none of them.
C16_ZeroInputsSkipped ==
    (ft.st # "NotCalled") =>
        /\ \A q \in 1..Len(ft.tested) :
              ft.evaluators[ft.tested[q].idx + 1].num_inputs # 0
        /\ \A n \in 0..(ft.idx - 1) :
              ft.evaluators[n + 1].num_inputs = 0 =>
                  n \in SkippedIdx /\ n \notin TestedIdx
        /\ \A n \in 0..(Len(ft.evaluators) - 1) :
              ft.evaluators[n + 1].num_inputs = 0 =>
                  LET r == run_ad_tests(SubSeq(ft.inputs, 1, 0),
                                        ft.evaluators[n + 1], ft.cm, ft.mode)
                  IN r.st = "Ok" /\ r.reached = {}

C16_Witness ==
    /\ ft.st = "Returned"
    /\ Len(ft.evaluators) = 2
    /\ ft.evaluators[1].num_inputs = 0
    /\ ft.skipped = <<0>>
    /\ Len(ft.tested) = 1
    /\ ft.tested[1].idx = 1
    /\ "engines" \in ft.tested[1].reached

----------------------------------------------------------------------------
(* Claims about evaluate *)

Evaluated == CallDone /\ call.fn = "evaluate"

BindingNames(bindings) == {bindings[k].name : k \in 1..Len(bindings)}

\* Walking e with the names in scope: is there a Boolean literal, an
\* If / Loop / Break / Set / Cast node, or an Id that is not in scope?
RECURSIVE MeetsError(_, _)
MeetsError(e, names) ==
    CASE e.tag = "Number" -> FALSE
      [] e.tag = "Boolean" -> TRUE
      [] e.tag = "Id" -> e.name \notin names
      [] e.tag = "UnOp" -> MeetsError(e.e, names)
      [] e.tag = "BinOp" -> MeetsError(e.l, names) \/ MeetsError(e.r, names)
      [] e.tag = "Let" ->
            \/ \E k \in 1..Len(e.bindings) : MeetsError(e.bindings[k].e, names)
            \/ MeetsError(e.body, names \cup BindingNames(e.bindings))
      [] e.tag = "Block" -> \E k \in 1..Len(e.exprs) : MeetsError(e.exprs[k], names)
      [] e.tag \in {"If", "Loop", "Break", "Set", "Cast"} -> TRUE

OpName ==
    [Neg |-> "neg", Sin |-> "sin", Cos |-> "cos", Tan |-> "tan", Exp |-> "exp",
     Log |-> "log", Sqrt |-> "sqrt", Abs |-> "abs", Add |-> "add",
     Sub |-> "sub", Mul |-> "mul", Div |-> "div", Pow |-> "pow"]

\* C17: evaluate returns an error exactly when the walk of the expression
\* meets a Boolean literal, an If / Loop / Break / Set / Cast node or an Id
\* absent from the environment in effect at that node; otherwise the result
\* is built bottom-up: a Number is from_f64 of its value, an Id is its value
\* in the environment, and an UnOp / BinOp is its backend operation applied
\* to the results of its operands.
C17_ErrorIffUnsupported ==
    Evaluated =>
        LET e == call.expr
            out == call.out
        IN
        /\ (out.st = "Err") <=> MeetsError(e, DOMAIN call.env)
        /\ out.st \in {"Ok", "Err"}
        /\ out.st = "Ok" =>
              /\ e.tag = "Number" => out.v = from_f64(e.val)
              /\ e.tag = "Id" => out.v = call.env[e.name]
              /\ e.tag = "UnOp" =>
                    /\ out.v.t = OpName[e.op]
                    /\ out.v.a = evaluate(e.e, call.env).v
              /\ e.tag = "BinOp" =>
                    /\ out.v.t = OpName[e.op]
                    /\ out.v.a = evaluate(e.l, call.env).v
                    /\ out.v.b = evaluate(e.r, call.env).v

\* An unbound name inside a binding of a Let below an operator makes the
\* whole call an error.
C17_Witness ==
    /\ Evaluated
    /\ call.expr.tag = "UnOp"
    /\ call.expr.e.tag = "Let"
    /\ X0 \in DOMAIN call.env
    /\ call.out.st = "Err"
    /\ call.out.name = "t"

\* The environment of the body of a Let entered with env: every binding
\* expression is evaluated in env, and a name bound more than once has the
\* value of its last binding.
LastBinding(bindings, n) ==
    CHOOSE k \in 1..Len(bindings) :
        /\ bindings[k].name = n
        /\ \A j \in (k + 1)..Len(bindings) : bindings[j].name # n
BodyEnv(bindings, env) ==
    [n \in (DOMAIN env) \cup BindingNames(bindings) |->
        IF n \in BindingNames(bindings)
        THEN evaluate(bindings[LastBinding(bindings, n)].e, env).v
        ELSE env[n]]

\* C18: evaluate on Let(bindings, body) evaluates every binding expression
\* in the environment the Let was entered with (it fails if one of them
\* fails there, even if an earlier binding of the same Let defines the name
\* it needs), then evaluates body in that environment extended with all the
\* bindings, a later binding of a name overriding an earlier one and the
\* bindings shadowing outer names; an operand evaluated after the Let still
\* sees the caller's environment.
C18_LetScoping ==
    Evaluated =>
        LET e == call.expr
            env == call.env
        IN
        /\ e.tag = "Let" =>
              IF \E k \in 1..Len(e.bindings) : evaluate(e.bindings[k].e, env).st # "Ok"
              THEN call.out.st = "Err"
              ELSE call.out = evaluate(e.body, BodyEnv(e.bindings, env))
        /\ (e.tag = "BinOp" /\ e.l.tag = "Let" /\ e.r.tag = "Id"
               /\ call.out.st = "Ok") => call.out.v.b = env[e.r.name]

\* Two bindings of t: the body sees the second one.
C18_Witness ==
    /\ Evaluated
    /\ call.expr.tag = "Let"
    /\ Len(call.expr.bindings) = 2
    /\ call.expr.bindings[1].name = call.expr.bindings[2].name
    /\ call.expr.bindings[2].e = Id(X0)
    /\ call.expr.body = Id("t")
    /\ call.out.st = "Ok"
    /\ call.out.v = call.env[X0]


----------------------------------------------------------------------------
(* Claims about the Calculator adapters *)

CalcDone == call.fn \in {"AdEvaluator", "RpnEvaluator"} /\ call.out # NotCalled

\* what the evaluator under the adapter returns for the call
CalcInner ==
    IF call.fn = "AdEvaluator"
    THEN evaluate(call.self.expr, InputEnv(call.inputs, Len(call.inputs)))
    ELSE evaluate_rpn(call.self.expression_rpn, Tensors(2), call.coincide)

\* C24: when the evaluator under an adapter's eval_expr returns an error,
\* the adapter returns normally and its result is zero, for AdEvaluator and
\* RpnEvaluator alike: it neither aborts nor propagates the error.  When the
\* evaluator succeeds the adapter returns its value.
C24_ErrorBecomesZero ==
    CalcDone =>
        /\ call.out.st = "Ok"
        /\ call.out.v = IF CalcInner.st = "Ok" THEN CalcInner.v ELSE zero

----------------------------------------------------------------------------
(* Claims about the configuration readers *)

ConfigRead == call.fn \in {"get_fuzz_config", "get_ast_config"} /\ call.out # NotCalled

\* the variable is set to a value that does not parse as a usize
Unparsable(var) == var.some /\ ~parse_usize(var.v).some

\* the variable is set to a string that is neither "true" nor "false"
NeitherTrueNorFalse(var) == var.some /\ var.v \notin {STR_true, STR_false}

\* C26: a configuration variable whose value cannot be parsed falls back to
\* its default: FUZZ_TESTS to 1, AST_MAX_DEPTH to 4, AST_MAX_VARIABLES to 2,
\* and AST_ALLOW_DIVISION, AST_ALLOW_POWER and AST_ALLOW_LOG, when set to a
\* string that is neither "true" nor "false", to true, true and false.
C26_UnparsableFallsBack ==
    ConfigRead =>
        LET env == call.env
            out == call.out.v
        IN
        /\ call.fn = "get_fuzz_config" =>
              (Unparsable(env.FUZZ_TESTS) => out.num_generated_tests = 1)
        /\ call.fn = "get_ast_config" =>
              /\ Unparsable(env.AST_MAX_DEPTH) => out.max_depth = 4
              /\ Unparsable(env.AST_MAX_VARIABLES) => out.max_variables = 2
              /\ NeitherTrueNorFalse(env.AST_ALLOW_DIVISION) => out.allow_division = TRUE
              /\ NeitherTrueNorFalse(env.AST_ALLOW_POWER) => out.allow_power = TRUE
              /\ NeitherTrueNorFalse(env.AST_ALLOW_LOG) => out.allow_log = FALSE

----------------------------------------------------------------------------
(* Claims about the fuzz target *)

\* the suffix of ast_data that starts at offset min(32 * i, L)
TestDataClamped(ast_data, i) ==
    Slice(ast_data, Min(i * Stride, Len(ast_data)), Len(ast_data))

\* C25: program i is generated from the suffix of ast_data (length L) that
\* starts at offset min(32 * i, L): at 32 * i inside the buffer, at the
\* buffer's end when 32 * i overruns it; so the windows never grow with i.
C25_WindowClamped ==
    ft.st \in {"Generating", "Testing", "Returned", "Aborted", "Panicked"} =>
        /\ \A n \in 1..Len(ft.windows) :
              ft.windows[n].test_data = TestDataClamped(ft.ast_data, ft.windows[n].i)
        /\ \A n \in 1..(Len(ft.windows) - 1) :
              Len(ft.windows[n + 1].test_data) <= Len(ft.windows[n].test_data)

\* C30: for every AST_MAX_VARIABLES setting (0 and 1 included) and every
\* input byte slice, one iteration of the fuzz target ends only by returning
\* or by the oracle-failure abort: reading inputs[0] and inputs[1], decoding,
\* the generator's max_variables - var_stack.len() and the slice
\* inputs[..num_inputs] never go out of range.
C30_IterationNeverPanics ==
    ft.st # "Panicked"

====
